---- MODULE Spec2Model ----
(***************************************************************************)
(* The storage layer of CampaignCentral (server/storage.ts): the IStorage  *)
(* contract and its two implementations, DatabaseStorage (relational) and  *)
(* MemStorage (in-memory).                                                 *)
(*                                                                         *)
(* Both implementations are kept side by side: every action is one         *)
(* IStorage call issued with the same arguments, at the same instant, to   *)
(* a MemStorage instance (variables users, contacts, ...) and to a         *)
(* DatabaseStorage instance (variables dbUsers, dbContacts, ...).  `ret`   *)
(* and `dbRet` hold what the call returned in each.                        *)
(*                                                                         *)
(* Conventions                                                             *)
(*  - a Map<number, T> and a table with a serial primary key are functions *)
(*    from ids to rows; iteration order of a Map is insertion order, which *)
(*    is id order because ids only grow and set() on an existing key keeps *)
(*    its position;                                                        *)
(*  - text that is searched (name, mobile, search term) is a sequence of   *)
(*    one-character strings, other text is a string;                       *)
(*  - JavaScript null and undefined are the strings Null and Undefined;    *)
(*  - time is counted in hours; `now` is what new Date() returns;          *)
(*  - crypto.getRandomValues is a source of fresh tokens (tokenSeq).       *)
(***************************************************************************)
EXTENDS Integers, Sequences, FiniteSets, TLC

----------------------------------------------------------------------------
(* Bounds of the model *)

MaxTime == 2
MaxUsers == 2
MaxTokens == 2
MaxContacts == 2
MaxImport == 3
MaxImported == 4
MaxCampaigns == 1
MaxSettings == 2

----------------------------------------------------------------------------
(* JavaScript values *)

Null == "null"
Undefined == "undefined"

\* x || null
OrNull(x) == IF x \in {Undefined, Null, ""} THEN Null ELSE x

\* truthiness of a string-valued field: if (x)
Truthy(x) == x \notin {Undefined, Null, ""}

\* what a call returned, or the error it threw; every value is a record: a
\* row, NotFound, or one of the wrappers below
Ok(v) == [threw |-> FALSE, value |-> v]
Throw(msg) == [threw |-> TRUE, value |-> [error |-> msg]]

\* a returned boolean, array of rows (as a set) and token
Bool(b) == [bool |-> b]
Rows(S) == [rows |-> S]
Token(t) == [token |-> t]

\* the `undefined` a lookup returns for an absent row
NotFound == [notFound |-> TRUE]

\* resetToken: null and resetTokenExpiry: null
NoToken == 0
NoTime == -1

\* a counter of InsertAnalytics that the caller left undefined
NotGiven == -1

\* expiry.setHours(expiry.getHours() + 1)
OneHour == 1

\* a connection string
Url == "postgres://db"

----------------------------------------------------------------------------
(* Keyed collections *)

\* Map.set(k, v)
Put(m, k, v) == [x \in DOMAIN m \cup {k} |-> IF x = k THEN v ELSE m[x]]

\* Map.delete(k)
Del(m, k) == [x \in DOMAIN m \ {k} |-> m[x]]

\* Array.from(map.values()), as a set
Values(m) == {m[k] : k \in DOMAIN m}

Min(S) == CHOOSE x \in S : \A y \in S : x <= y

\* Array.from(map.values()).find(P): the first row in insertion order
\* ks are the keys of the rows that satisfy P
Find(m, ks) == IF ks = {} THEN NotFound ELSE m[Min(ks)]

\* result[0] of a select that the model shows to match at most one row
FirstRow(rows) == IF rows = {} THEN NotFound ELSE CHOOSE r \in rows : TRUE

EmptyMap == [x \in {} |-> NotFound]

----------------------------------------------------------------------------
(* Text: a sequence of one-character strings *)

UpperToLower == ("A" :> "a") @@ ("B" :> "b")

\* String.prototype.toLowerCase
ToLowerCase(s) ==
    [i \in 1..Len(s) |-> IF s[i] \in DOMAIN UpperToLower THEN UpperToLower[s[i]]
                         ELSE s[i]]

\* String.prototype.includes
Includes(s, t) ==
    \E i \in 0..(Len(s) - Len(t)) : SubSeq(s, i + 1, i + Len(t)) = t

\* SQL: s LIKE p, with % for any run of characters and _ for any one character
RECURSIVE Like(_, _)
Like(s, p) ==
    IF p = <<>> THEN s = <<>>
    ELSE IF Head(p) = "%"
         THEN \E k \in 0..Len(s) : Like(SubSeq(s, k + 1, Len(s)), Tail(p))
         ELSE /\ s # <<>>
              /\ (Head(p) = "_" \/ Head(p) = Head(s))
              /\ Like(Tail(s), Tail(p))

\* `%${search}%`
SearchTerm(search) == <<"%">> \o search \o <<"%">>

----------------------------------------------------------------------------
(* Dates, in hours *)

HoursPerDay == 24
DaysPerWeek == 7
DaysPerMonth == 30
DaysPerYear == 365

\* the switch on filters.dateRange: startDate starts as new Date() and an
\* unrecognized value leaves it there.  A month is taken as 30 days and a
\* year as 365.
StartDate(dateRange, t) ==
    CASE dateRange = "today" -> t - (t % HoursPerDay)
      [] dateRange = "last-week" -> t - DaysPerWeek * HoursPerDay
      [] dateRange = "last-month" -> t - DaysPerMonth * HoursPerDay
      [] dateRange = "last-year" -> t - DaysPerYear * HoursPerDay
      [] OTHER -> t

----------------------------------------------------------------------------
VARIABLES
    now,                \* the clock, in hours
    tokenSeq,           \* number of reset tokens generated so far
    call,               \* the last IStorage call and its arguments
    ret,                \* what MemStorage returned for it
    dbRet,              \* what DatabaseStorage returned for it
    users,              \* MemStorage.users
    userCurrentId,      \* MemStorage.userCurrentId
    dbUsers,            \* table users
    dbUsersSeq,         \* its serial id sequence
    tokenOwner,         \* history: the userId each token was created for
    contacts,           \* MemStorage.contacts
    contactCurrentId,   \* MemStorage.contactCurrentId
    dbContacts,         \* table contacts
    dbContactsSeq,      \* its serial id sequence
    campaigns,          \* MemStorage.campaigns
    campaignCurrentId,  \* MemStorage.campaignCurrentId
    analyticsData,      \* MemStorage.analyticsData
    analyticsCurrentId, \* MemStorage.analyticsCurrentId
    dbCampaigns,        \* table campaigns
    dbCampaignsSeq,     \* its serial id sequence
    dbAnalytics,        \* table analytics
    dbAnalyticsSeq,     \* its serial id sequence
    launched,           \* history: the ids launchCampaign returned true for
    settingsData,       \* MemStorage.settingsData
    settingsCurrentId,  \* MemStorage.settingsCurrentId
    dbSettings,         \* table settings
    dbSettingsSeq,      \* its serial id sequence
    dbConfigUrl,        \* DB_CONFIG.url
    dbModule,           \* module ./db: unloaded, loaded, or failed to load
    storage,            \* the exported singleton: the class it is an instance of
    sessionStore,       \* DatabaseStorage.sessionStore of the instance built
    tasks               \* the MemStorage calls in progress, by caller

userVars == <<users, userCurrentId, dbUsers, dbUsersSeq, tokenSeq, tokenOwner>>
contactVars == <<contacts, contactCurrentId, dbContacts, dbContactsSeq>>
campaignVars == <<campaigns, campaignCurrentId, analyticsData, analyticsCurrentId,
                  dbCampaigns, dbCampaignsSeq, dbAnalytics, dbAnalyticsSeq, launched>>
settingsVars == <<settingsData, settingsCurrentId, dbSettings, dbSettingsSeq>>
processVars == <<dbConfigUrl, dbModule, storage, sessionStore>>
taskVars == <<tasks>>
\* what the settings calls leave alone beside users, contacts and campaigns
restVars == <<processVars, taskVars>>
\* what the user, contact and campaign calls leave alone
otherVars == <<settingsVars, restVars>>
vars == <<now, call, ret, dbRet, userVars, contactVars, campaignVars, otherVars>>

----------------------------------------------------------------------------
(* USER METHODS, MemStorage *)

MemGetUser(us, id) == IF id \in DOMAIN us THEN us[id] ELSE NotFound

MemCreateUser(us, id, insertUser, t) ==
    LET user == [id |-> id,
                 username |-> insertUser.username,
                 password |-> insertUser.password,
                 createdAt |-> t,
                 email |-> OrNull(insertUser.email),
                 resetToken |-> NoToken,
                 resetTokenExpiry |-> NoTime]
    IN [users |-> Put(us, id, user), userCurrentId |-> id + 1, ret |-> Ok(user)]

\* createResetToken without the test `if (!user) throw`
CreateResetTokenUnchecked(us, userId, token, t) ==
    LET hit == {k \in DOMAIN us : k = userId}
    IN [users |-> [k \in DOMAIN us |->
                      IF k \in hit THEN [us[k] EXCEPT !.resetToken = token,
                                                      !.resetTokenExpiry = t + OneHour]
                      ELSE us[k]],
        ret |-> Ok(Token(token))]

\* createResetToken that leaves the token of a user who already holds one
CreateResetTokenKeepsFirst(us, userId, token, t) ==
    IF userId \notin DOMAIN us
    THEN [users |-> us, ret |-> Throw("User not found")]
    ELSE IF us[userId].resetToken # NoToken
    THEN [users |-> us, ret |-> Ok(Token(token))]
    ELSE [users |-> Put(us, userId, [us[userId] EXCEPT
                                        !.resetToken = token,
                                        !.resetTokenExpiry = t + OneHour]),
          ret |-> Ok(Token(token))]

MemCreateResetToken(us, userId, token, t) ==
    LET user == MemGetUser(us, userId)
    IN IF user = NotFound
       THEN [users |-> us, ret |-> Throw("User not found")]
       ELSE LET updatedUser == [user EXCEPT !.resetToken = token,
                                            !.resetTokenExpiry = t + OneHour]
            IN [users |-> Put(us, userId, updatedUser), ret |-> Ok(Token(token))]

\* verifyResetToken without the expiry test
VerifyResetTokenNoExpiry(us, token, t) ==
    Ok(Find(us, {k \in DOMAIN us : us[k].resetToken = token}))

MemVerifyResetToken(us, token, t) ==
    LET user == Find(us, {k \in DOMAIN us : us[k].resetToken = token})
    IN IF user = NotFound THEN Ok(NotFound)
       ELSE IF user.resetTokenExpiry = NoTime \/ user.resetTokenExpiry < t
            THEN Ok(NotFound)
            ELSE Ok(user)

\* updatePassword that leaves resetToken and resetTokenExpiry as they are
UpdatePasswordKeepsToken(us, userId, password) ==
    IF userId \notin DOMAIN us
    THEN [users |-> us, ret |-> Ok(Bool(FALSE))]
    ELSE [users |-> Put(us, userId, [us[userId] EXCEPT !.password = password]),
          ret |-> Ok(Bool(TRUE))]

MemUpdatePassword(us, userId, password) ==
    LET user == MemGetUser(us, userId)
    IN IF user = NotFound
       THEN [users |-> us, ret |-> Ok(Bool(FALSE))]
       ELSE LET updatedUser == [user EXCEPT !.password = password,
                                            !.resetToken = NoToken,
                                            !.resetTokenExpiry = NoTime]
            IN [users |-> Put(us, userId, updatedUser), ret |-> Ok(Bool(TRUE))]

----------------------------------------------------------------------------
(* USER METHODS, DatabaseStorage *)

\* db.select().from(users).where(eq(users.id, id))
DbGetUser(tbl, id) == FirstRow({r \in Values(tbl) : r.id = id})

\* insert(users).values({...insertUser, createdAt}): columns not given take
\* their defaults (email, resetToken, resetTokenExpiry: null)
DbCreateUser(tbl, seq, insertUser, t) ==
    LET row == [id |-> seq,
                username |-> insertUser.username,
                password |-> insertUser.password,
                createdAt |-> t,
                email |-> IF insertUser.email = Undefined THEN Null
                          ELSE insertUser.email,
                resetToken |-> NoToken,
                resetTokenExpiry |-> NoTime]
    IN [users |-> Put(tbl, seq, row), seq |-> seq + 1, ret |-> Ok(row)]

DbCreateResetToken(tbl, userId, token, t) ==
    LET user == DbGetUser(tbl, userId)
    IN IF user = NotFound
       THEN [users |-> tbl, ret |-> Throw("User not found")]
       ELSE LET hit == {k \in DOMAIN tbl : tbl[k].id = userId}
                updated == [k \in DOMAIN tbl |->
                              IF k \in hit
                              THEN [tbl[k] EXCEPT !.resetToken = token,
                                                  !.resetTokenExpiry = t + OneHour]
                              ELSE tbl[k]]
            IN IF hit = {}
               THEN [users |-> tbl, ret |-> Throw("Failed to create reset token")]
               ELSE [users |-> updated, ret |-> Ok(Token(token))]

DbVerifyResetToken(tbl, token, t) ==
    LET result == {r \in Values(tbl) : r.resetToken = token}
        user == FirstRow(result)
    IN IF result = {} THEN Ok(NotFound)
       ELSE IF user.resetTokenExpiry = NoTime \/ user.resetTokenExpiry < t
            THEN Ok(NotFound)
            ELSE Ok(user)

DbUpdatePassword(tbl, userId, password) ==
    LET hit == {k \in DOMAIN tbl : tbl[k].id = userId}
        updated == [k \in DOMAIN tbl |->
                      IF k \in hit
                      THEN [tbl[k] EXCEPT !.password = password,
                                          !.resetToken = NoToken,
                                          !.resetTokenExpiry = NoTime]
                      ELSE tbl[k]]
    IN [users |-> updated, ret |-> Ok(Bool(hit # {}))]

----------------------------------------------------------------------------
(* CONTACT METHODS, MemStorage *)

\* filters?: undefined
NoFilters == [none |-> TRUE]

\* getContacts without the first filter on accountId
GetContactsOfAnyAccount(cs, accountId, filters, t) ==
    Ok(Rows({c \in Values(cs) :
               \/ filters = NoFilters
               \/ ~Truthy(filters.label)
               \/ c.label = filters.label}))

MemGetContacts(cs, accountId, filters, t) ==
    LET all == {c \in Values(cs) : c.accountId = accountId}
        bySearch ==
            IF filters # NoFilters /\ filters.search # <<>>
            THEN LET searchTerm == ToLowerCase(filters.search)
                 IN {c \in all : \/ Includes(ToLowerCase(c.name), searchTerm)
                                 \/ Includes(ToLowerCase(c.mobile), searchTerm)}
            ELSE all
        byLabel ==
            IF filters # NoFilters /\ Truthy(filters.label)
            THEN {c \in bySearch : c.label = filters.label}
            ELSE bySearch
        byLocation ==
            IF filters # NoFilters /\ Truthy(filters.location)
            THEN {c \in byLabel : c.location = filters.location}
            ELSE byLabel
        byDate ==
            IF filters # NoFilters /\ Truthy(filters.dateRange)
            THEN {c \in byLocation : c.createdAt >= StartDate(filters.dateRange, t)}
            ELSE byLocation
    IN Ok(Rows(byDate))

\* getContactByMobile that compares the mobile alone
GetContactByMobileAnyAccount(cs, mobile, accountId) ==
    Find(cs, {k \in DOMAIN cs : cs[k].mobile = mobile})

MemGetContactByMobile(cs, mobile, accountId) ==
    Find(cs, {k \in DOMAIN cs : cs[k].mobile = mobile /\ cs[k].accountId = accountId})

\* createContact without `|| null` on label and location
CreateContactKeepsEmpty(cs, id, insertContact, t) ==
    LET contact == [id |-> id,
                    createdAt |-> t,
                    accountId |-> insertContact.accountId,
                    name |-> insertContact.name,
                    mobile |-> insertContact.mobile,
                    location |-> insertContact.location,
                    label |-> insertContact.label]
    IN [contacts |-> Put(cs, id, contact), contactCurrentId |-> id + 1,
        ret |-> Ok(contact)]

MemCreateContact(cs, id, insertContact, t) ==
    LET contact == [id |-> id,
                    createdAt |-> t,
                    accountId |-> insertContact.accountId,
                    name |-> insertContact.name,
                    mobile |-> insertContact.mobile,
                    location |-> OrNull(insertContact.location),
                    label |-> OrNull(insertContact.label)]
    IN [contacts |-> Put(cs, id, contact), contactCurrentId |-> id + 1,
        ret |-> Ok(contact)]

\* updateContact with the `|| null` of createContact on what it writes
UpdateContactNormalizing(cs, id, updateData) ==
    IF id \notin DOMAIN cs THEN [contacts |-> cs, ret |-> Ok(NotFound)]
    ELSE LET updatedContact ==
                 [f \in DOMAIN cs[id] |->
                     IF f \notin DOMAIN updateData THEN cs[id][f]
                     ELSE IF f \in {"label", "location"} THEN OrNull(updateData[f])
                     ELSE updateData[f]]
         IN [contacts |-> Put(cs, id, updatedContact), ret |-> Ok(updatedContact)]

\* { ...contact, ...updateData }; updateData is a record of the fields the
\* caller gave
MemUpdateContact(cs, id, updateData) ==
    IF id \notin DOMAIN cs THEN [contacts |-> cs, ret |-> Ok(NotFound)]
    ELSE LET updatedContact ==
                 [f \in DOMAIN cs[id] \cup DOMAIN updateData |->
                     IF f \in DOMAIN updateData THEN updateData[f]
                     ELSE cs[id][f]]
         IN [contacts |-> Put(cs, id, updatedContact), ret |-> Ok(updatedContact)]

MemDeleteContact(cs, id) ==
    [contacts |-> Del(cs, id), ret |-> Ok(Bool(id \in DOMAIN cs))]

RECURSIVE MemImportContacts(_, _, _, _, _, _, _)
MemImportContacts(cs, id, list, deduplicateByMobile, t, imported, duplicates) ==
    IF list = <<>>
    THEN [contacts |-> cs, contactCurrentId |-> id,
          ret |-> Ok([imported |-> imported, duplicates |-> duplicates])]
    ELSE LET contact == Head(list)
             existing == MemGetContactByMobile(cs, contact.mobile, contact.accountId)
         IN IF deduplicateByMobile /\ existing # NotFound
            THEN MemImportContacts(cs, id, Tail(list), deduplicateByMobile, t,
                                   imported, duplicates + 1)
            ELSE LET m == MemCreateContact(cs, id, contact, t)
                 IN MemImportContacts(m.contacts, m.contactCurrentId, Tail(list),
                                      deduplicateByMobile, t, imported + 1, duplicates)

----------------------------------------------------------------------------
(* CONTACT METHODS, DatabaseStorage *)

DbGetContacts(tbl, accountId, filters, t) ==
    LET ofAccount == {r \in Values(tbl) : r.accountId = accountId}
    IN IF filters # NoFilters /\ filters.search # <<>>
       THEN LET searchTerm == SearchTerm(filters.search)
            IN Ok(Rows({r \in ofAccount : \/ Like(r.name, searchTerm)
                                          \/ Like(r.mobile, searchTerm)}))
       ELSE IF filters # NoFilters /\ Truthy(filters.label)
       THEN Ok(Rows({r \in ofAccount : r.label = filters.label}))
       ELSE IF filters # NoFilters /\ Truthy(filters.location)
       THEN Ok(Rows({r \in ofAccount : r.location = filters.location}))
       ELSE IF filters # NoFilters /\ Truthy(filters.dateRange)
       THEN Ok(Rows({r \in ofAccount :
                      r.createdAt >= StartDate(filters.dateRange, t)}))
       ELSE Ok(Rows(ofAccount))

\* the rows select ... where mobile = ? and accountId = ? returns; the caller
\* takes result[0], and the select states no order
DbSelectContactByMobile(tbl, mobile, accountId) ==
    {r \in Values(tbl) : r.mobile = mobile /\ r.accountId = accountId}

DbCreateContact(tbl, seq, insertContact, t) ==
    LET row == [id |-> seq,
                createdAt |-> t,
                accountId |-> insertContact.accountId,
                name |-> insertContact.name,
                mobile |-> insertContact.mobile,
                location |-> OrNull(insertContact.location),
                label |-> OrNull(insertContact.label)]
    IN [contacts |-> Put(tbl, seq, row), seq |-> seq + 1, ret |-> Ok(row)]

\* update contacts set(updateData) where id = ? returning *
DbUpdateContact(tbl, id, updateData) ==
    LET hit == {k \in DOMAIN tbl : tbl[k].id = id}
        updated == [k \in DOMAIN tbl |->
                       IF k \in hit
                       THEN [f \in DOMAIN tbl[k] |->
                                IF f \in DOMAIN updateData THEN updateData[f]
                                ELSE tbl[k][f]]
                       ELSE tbl[k]]
    IN [contacts |-> updated,
        ret |-> IF hit = {} THEN Ok(NotFound) ELSE Ok(updated[Min(hit)])]

DbDeleteContact(tbl, id) ==
    LET hit == {k \in DOMAIN tbl : tbl[k].id = id}
    IN [contacts |-> [k \in DOMAIN tbl \ hit |-> tbl[k]], ret |-> Ok(Bool(hit # {}))]

RECURSIVE DbImportContacts(_, _, _, _, _, _, _)
DbImportContacts(tbl, seq, list, deduplicateByMobile, t, imported, duplicates) ==
    IF list = <<>>
    THEN [contacts |-> tbl, seq |-> seq,
          ret |-> Ok([imported |-> imported, duplicates |-> duplicates])]
    ELSE LET contact == Head(list)
             existing == DbSelectContactByMobile(tbl, contact.mobile, contact.accountId)
         IN IF deduplicateByMobile /\ existing # {}
            THEN DbImportContacts(tbl, seq, Tail(list), deduplicateByMobile, t,
                                  imported, duplicates + 1)
            ELSE LET d == DbCreateContact(tbl, seq, contact, t)
                 IN DbImportContacts(d.contacts, d.seq, Tail(list),
                                     deduplicateByMobile, t, imported + 1, duplicates)

\* importContacts with a try/catch around createContact: a rejected insert is
\* skipped and the loop goes on
RECURSIVE ImportContactsSkippingRejected(_, _, _, _, _, _, _, _)
ImportContactsSkippingRejected(tbl, seq, list, deduplicateByMobile, t, imported, duplicates, failAt) ==
    IF list = <<>>
    THEN [contacts |-> tbl, seq |-> seq,
          ret |-> Ok([imported |-> imported, duplicates |-> duplicates])]
    ELSE LET contact == Head(list)
             existing == DbSelectContactByMobile(tbl, contact.mobile, contact.accountId)
         IN IF deduplicateByMobile /\ existing # {}
            THEN ImportContactsSkippingRejected(tbl, seq, Tail(list),
                                                deduplicateByMobile, t, imported,
                                                duplicates + 1, failAt - 1)
            ELSE IF failAt = 1
            THEN ImportContactsSkippingRejected(tbl, seq, Tail(list),
                                                deduplicateByMobile, t, imported,
                                                duplicates, failAt - 1)
            ELSE LET d == DbCreateContact(tbl, seq, contact, t)
                 IN ImportContactsSkippingRejected(d.contacts, d.seq, Tail(list),
                                                   deduplicateByMobile, t,
                                                   imported + 1, duplicates,
                                                   failAt - 1)

\* importContacts when the insert of createContact rejects for the record at
\* position failAt of the list (0: no insert rejects); the loop has no
\* try/catch, so the rejection leaves the method at once and the rows of the
\* earlier iterations stay
RECURSIVE DbImportContactsFailing(_, _, _, _, _, _, _, _)
DbImportContactsFailing(tbl, seq, list, deduplicateByMobile, t, imported, duplicates, failAt) ==
    IF list = <<>>
    THEN [contacts |-> tbl, seq |-> seq,
          ret |-> Ok([imported |-> imported, duplicates |-> duplicates])]
    ELSE LET contact == Head(list)
             existing == DbSelectContactByMobile(tbl, contact.mobile, contact.accountId)
         IN IF deduplicateByMobile /\ existing # {}
            THEN DbImportContactsFailing(tbl, seq, Tail(list), deduplicateByMobile, t,
                                         imported, duplicates + 1, failAt - 1)
            ELSE IF failAt = 1
            THEN [contacts |-> tbl, seq |-> seq, ret |-> Throw("insert failed")]
            ELSE LET d == DbCreateContact(tbl, seq, contact, t)
                 IN DbImportContactsFailing(d.contacts, d.seq, Tail(list),
                                            deduplicateByMobile, t, imported + 1,
                                            duplicates, failAt - 1)

----------------------------------------------------------------------------
(* ANALYTICS METHODS *)

Counters == {"sent", "delivered", "read", "optout", "hold", "failed"}

\* x || 0 where the code has x ?? y
CoalesceToZero(x, y) == IF x = NotGiven THEN 0 ELSE x

\* x ?? y and x || 0 on a counter
Coalesce(x, y) == IF x = NotGiven THEN y ELSE x
OrZero(x) == IF x = NotGiven THEN 0 ELSE x

\* the row an update of `existing` by insertAnalytics writes
MergedAnalytics(existing, insertAnalytics, t) ==
    [id |-> existing.id,
     accountId |-> insertAnalytics.accountId,
     campaignId |-> insertAnalytics.campaignId,
     updatedAt |-> t,
     sent |-> Coalesce(insertAnalytics.sent, existing.sent),
     delivered |-> Coalesce(insertAnalytics.delivered, existing.delivered),
     read |-> Coalesce(insertAnalytics.read, existing.read),
     optout |-> Coalesce(insertAnalytics.optout, existing.optout),
     hold |-> Coalesce(insertAnalytics.hold, existing.hold),
     failed |-> Coalesce(insertAnalytics.failed, existing.failed)]

\* the row an insert of insertAnalytics writes
NewAnalytics(id, insertAnalytics, t) ==
    [id |-> id,
     accountId |-> insertAnalytics.accountId,
     campaignId |-> insertAnalytics.campaignId,
     updatedAt |-> t,
     sent |-> OrZero(insertAnalytics.sent),
     delivered |-> OrZero(insertAnalytics.delivered),
     read |-> OrZero(insertAnalytics.read),
     optout |-> OrZero(insertAnalytics.optout),
     hold |-> OrZero(insertAnalytics.hold),
     failed |-> OrZero(insertAnalytics.failed)]

\* createOrUpdateAnalytics without the lookup of an existing row
CreateAnalyticsAlways(an, id, insertAnalytics, t) ==
    LET analytics == NewAnalytics(id, insertAnalytics, t)
    IN [analyticsData |-> Put(an, id, analytics),
        analyticsCurrentId |-> id + 1, ret |-> Ok(analytics)]

MemCreateOrUpdateAnalytics(an, id, insertAnalytics, t) ==
    LET existing == Find(an, {k \in DOMAIN an :
                                 an[k].campaignId = insertAnalytics.campaignId})
    IN IF existing # NotFound
       THEN LET updated == MergedAnalytics(existing, insertAnalytics, t)
            IN [analyticsData |-> Put(an, existing.id, updated),
                analyticsCurrentId |-> id, ret |-> Ok(updated)]
       ELSE LET analytics == NewAnalytics(id, insertAnalytics, t)
            IN [analyticsData |-> Put(an, id, analytics),
                analyticsCurrentId |-> id + 1, ret |-> Ok(analytics)]

MemGetAnalytics(an, accountId, campaignId) ==
    LET ofAccount == {a \in Values(an) : a.accountId = accountId}
    IN IF campaignId # 0
       THEN Ok(Rows({a \in ofAccount : a.campaignId = campaignId}))
       ELSE Ok(Rows(ofAccount))

\* campaignId?: undefined and 0 are both falsy, and are both 0 here
DbGetAnalytics(tbl, accountId, campaignId) ==
    IF campaignId # 0
    THEN Ok(Rows({r \in Values(tbl) : /\ r.accountId = accountId
                                      /\ r.campaignId = campaignId}))
    ELSE Ok(Rows({r \in Values(tbl) : r.accountId = accountId}))

\* existing[0] is the row of least id among those the select returns
DbCreateOrUpdateAnalytics(tbl, seq, insertAnalytics, t) ==
    LET existing == {k \in DOMAIN tbl : tbl[k].campaignId = insertAnalytics.campaignId}
    IN IF existing # {}
       THEN LET first == tbl[Min(existing)]
                row == MergedAnalytics(first, insertAnalytics, t)
            IN [analytics |-> [k \in DOMAIN tbl |->
                                  IF tbl[k].id = first.id THEN row ELSE tbl[k]],
                seq |-> seq, ret |-> Ok(row)]
       ELSE LET row == NewAnalytics(seq, insertAnalytics, t)
            IN [analytics |-> Put(tbl, seq, row), seq |-> seq + 1, ret |-> Ok(row)]

\* the argument launchCampaign passes to createOrUpdateAnalytics
InitialAnalytics(id, accountId) ==
    [campaignId |-> id, accountId |-> accountId, sent |-> 0, delivered |-> 0,
     read |-> 0, optout |-> 0, hold |-> 0, failed |-> 0]

----------------------------------------------------------------------------
(* CAMPAIGN METHODS, MemStorage *)

MemGetCampaigns(cs, accountId, filters, t) ==
    LET all == {c \in Values(cs) : c.accountId = accountId}
        bySearch ==
            IF filters # NoFilters /\ filters.search # <<>>
            THEN {c \in all : Includes(ToLowerCase(c.name), ToLowerCase(filters.search))}
            ELSE all
        byStatus ==
            IF filters # NoFilters /\ Truthy(filters.status)
            THEN {c \in bySearch : c.status = filters.status}
            ELSE bySearch
        byDate ==
            IF filters # NoFilters /\ Truthy(filters.dateRange)
            THEN {c \in byStatus : c.createdAt >= StartDate(filters.dateRange, t)}
            ELSE byStatus
    IN Ok(Rows(byDate))

\* createCampaign that keeps a status the caller supplied
CreateCampaignKeepsStatus(cs, id, insertCampaign, t) ==
    LET campaign == [id |-> id,
                     name |-> insertCampaign.name,
                     template |-> insertCampaign.template,
                     contactLabel |-> OrNull(insertCampaign.contactLabel),
                     status |-> IF Truthy(insertCampaign.status)
                                THEN insertCampaign.status ELSE "draft",
                     scheduledFor |-> OrNull(insertCampaign.scheduledFor),
                     accountId |-> insertCampaign.accountId,
                     createdAt |-> t]
    IN [campaigns |-> Put(cs, id, campaign), campaignCurrentId |-> id + 1,
        ret |-> Ok(campaign)]

\* createCampaign that takes the least id no stored campaign has
CreateCampaignReusingId(cs, id, insertCampaign, t) ==
    LET free == Min((1..id) \ DOMAIN cs)
        campaign == [id |-> free,
                     name |-> insertCampaign.name,
                     template |-> insertCampaign.template,
                     contactLabel |-> OrNull(insertCampaign.contactLabel),
                     status |-> "draft",
                     scheduledFor |-> OrNull(insertCampaign.scheduledFor),
                     accountId |-> insertCampaign.accountId,
                     createdAt |-> t]
    IN [campaigns |-> Put(cs, free, campaign), campaignCurrentId |-> id + 1,
        ret |-> Ok(campaign)]

MemCreateCampaign(cs, id, insertCampaign, t) ==
    LET campaign == [id |-> id,
                     name |-> insertCampaign.name,
                     template |-> insertCampaign.template,
                     contactLabel |-> OrNull(insertCampaign.contactLabel),
                     status |-> "draft",
                     scheduledFor |-> OrNull(insertCampaign.scheduledFor),
                     accountId |-> insertCampaign.accountId,
                     createdAt |-> t]
    IN [campaigns |-> Put(cs, id, campaign), campaignCurrentId |-> id + 1,
        ret |-> Ok(campaign)]

\* updateCampaign as { ...campaign, ...updateData }
UpdateCampaignSpreading(cs, id, updateData) ==
    IF id \notin DOMAIN cs THEN [campaigns |-> cs, ret |-> Ok(NotFound)]
    ELSE LET updatedCampaign ==
                 [f \in DOMAIN cs[id] |->
                     IF f \in DOMAIN updateData THEN updateData[f] ELSE cs[id][f]]
         IN [campaigns |-> Put(cs, id, updatedCampaign), ret |-> Ok(updatedCampaign)]

\* updateData is a record of the fields the caller gave: a field that is
\* undefined is not in its domain
MemUpdateCampaign(cs, id, updateData) ==
    IF id \notin DOMAIN cs THEN [campaigns |-> cs, ret |-> Ok(NotFound)]
    ELSE LET campaign == cs[id]
             updatedCampaign ==
                 [campaign EXCEPT
                    !.name = IF "name" \in DOMAIN updateData
                             THEN updateData.name ELSE campaign.name,
                    !.template = IF "template" \in DOMAIN updateData
                                 THEN updateData.template ELSE campaign.template,
                    !.contactLabel = IF "contactLabel" \in DOMAIN updateData
                                     THEN OrNull(updateData.contactLabel)
                                     ELSE campaign.contactLabel,
                    !.scheduledFor = IF "scheduledFor" \in DOMAIN updateData
                                     THEN OrNull(updateData.scheduledFor)
                                     ELSE campaign.scheduledFor]
         IN [campaigns |-> Put(cs, id, updatedCampaign), ret |-> Ok(updatedCampaign)]

MemDeleteCampaign(cs, id) ==
    [campaigns |-> Del(cs, id), ret |-> Ok(Bool(id \in DOMAIN cs))]

\* launchCampaign that writes the analytics entry before it looks for the
\* campaign
LaunchCampaignLateCheck(cs, an, anId, id, t) ==
    LET accountId == IF id \in DOMAIN cs THEN cs[id].accountId ELSE 0
        a == MemCreateOrUpdateAnalytics(an, anId, InitialAnalytics(id, accountId), t)
    IN [campaigns |-> IF id \in DOMAIN cs
                      THEN Put(cs, id, [cs[id] EXCEPT !.status = "active"])
                      ELSE cs,
        analyticsData |-> a.analyticsData,
        analyticsCurrentId |-> a.analyticsCurrentId,
        ret |-> Ok(Bool(id \in DOMAIN cs))]

MemLaunchCampaign(cs, an, anId, id, t) ==
    IF id \notin DOMAIN cs
    THEN [campaigns |-> cs, analyticsData |-> an, analyticsCurrentId |-> anId,
          ret |-> Ok(Bool(FALSE))]
    ELSE LET campaign == cs[id]
             updatedCampaign == [campaign EXCEPT !.status = "active"]
             a == MemCreateOrUpdateAnalytics(an, anId,
                     InitialAnalytics(id, campaign.accountId), t)
         IN [campaigns |-> Put(cs, id, updatedCampaign),
             analyticsData |-> a.analyticsData,
             analyticsCurrentId |-> a.analyticsCurrentId,
             ret |-> Ok(Bool(TRUE))]

----------------------------------------------------------------------------
(* CAMPAIGN METHODS, DatabaseStorage *)

DbGetCampaigns(tbl, accountId, filters, t) ==
    LET ofAccount == {r \in Values(tbl) : r.accountId = accountId}
    IN IF filters # NoFilters /\ filters.search # <<>>
       THEN Ok(Rows({r \in ofAccount : Like(r.name, SearchTerm(filters.search))}))
       ELSE IF filters # NoFilters /\ Truthy(filters.status)
       THEN Ok(Rows({r \in ofAccount : r.status = filters.status}))
       ELSE IF filters # NoFilters /\ Truthy(filters.dateRange)
       THEN Ok(Rows({r \in ofAccount :
                      r.createdAt >= StartDate(filters.dateRange, t)}))
       ELSE Ok(Rows(ofAccount))

\* values({...insertCampaign, contactLabel, status: "draft", createdAt}); a
\* scheduledFor left undefined takes the column default, null
DbCreateCampaign(tbl, seq, insertCampaign, t) ==
    LET row == [id |-> seq,
                name |-> insertCampaign.name,
                template |-> insertCampaign.template,
                contactLabel |-> OrNull(insertCampaign.contactLabel),
                status |-> "draft",
                scheduledFor |-> IF insertCampaign.scheduledFor = Undefined
                                 THEN Null ELSE insertCampaign.scheduledFor,
                accountId |-> insertCampaign.accountId,
                createdAt |-> t]
    IN [campaigns |-> Put(tbl, seq, row), seq |-> seq + 1, ret |-> Ok(row)]

\* set(updateData): every field the caller gave is written as given
DbUpdateCampaign(tbl, id, updateData) ==
    LET hit == {k \in DOMAIN tbl : tbl[k].id = id}
        Set(row) ==
            [f \in DOMAIN row |->
                IF f \in DOMAIN updateData THEN updateData[f] ELSE row[f]]
        updated == [k \in DOMAIN tbl |-> IF k \in hit THEN Set(tbl[k]) ELSE tbl[k]]
    IN [campaigns |-> updated,
        ret |-> IF hit = {} THEN Ok(NotFound) ELSE Ok(updated[Min(hit)])]

DbDeleteCampaign(tbl, id) ==
    LET hit == {k \in DOMAIN tbl : tbl[k].id = id}
    IN [campaigns |-> [k \in DOMAIN tbl \ hit |-> tbl[k]], ret |-> Ok(Bool(hit # {}))]

DbLaunchCampaign(tbl, an, anSeq, id, t) ==
    LET hit == {k \in DOMAIN tbl : tbl[k].id = id}
        updated == [k \in DOMAIN tbl |->
                      IF k \in hit THEN [tbl[k] EXCEPT !.status = "active"]
                      ELSE tbl[k]]
    IN IF hit = {}
       THEN [campaigns |-> tbl, analytics |-> an, seq |-> anSeq,
             ret |-> Ok(Bool(FALSE))]
       ELSE LET a == DbCreateOrUpdateAnalytics(an, anSeq,
                        InitialAnalytics(id, updated[Min(hit)].accountId), t)
            IN [campaigns |-> updated, analytics |-> a.analytics, seq |-> a.seq,
                ret |-> Ok(Bool(TRUE))]

----------------------------------------------------------------------------
(* SETTINGS METHODS *)

\* the fields of a Settings row that a caller sets
SettingsFields ==
    {"wabaApiUrl", "facebookAccessToken", "partnerMobile", "wabaId",
     "campaignApiKey"}

\* data (settingsData) is a record of the fields the caller gave
MemGetSettings(sd, accountId) ==
    Find(sd, {k \in DOMAIN sd : sd[k].accountId = accountId})

\* { ...existing, ...settingsData, updatedAt: new Date() }
MergedSettings(existing, data, t) ==
    [f \in DOMAIN existing |->
        IF f = "updatedAt" THEN t
        ELSE IF f \in DOMAIN data THEN data[f]
        ELSE existing[f]]

\* settingsData.wabaApiUrl || null, and so on
GivenOrNull(data, f) ==
    IF f \in DOMAIN data THEN OrNull(data[f]) ELSE Null

\* updateSettings from the resolved `const existing = await this.getSettings(..)`
\* on: existing is the row, or NotFound, that getSettings found before the await
MemStoreSettings(sd, id, existing, accountId, data, t) ==
    IF existing # NotFound
    THEN LET updated == MergedSettings(existing, data, t)
         IN [settingsData |-> Put(sd, existing.id, updated),
             settingsCurrentId |-> id, ret |-> Ok(updated)]
    ELSE LET settings ==
                 [id |-> id,
                  accountId |-> accountId,
                  updatedAt |-> t,
                  wabaApiUrl |-> GivenOrNull(data, "wabaApiUrl"),
                  facebookAccessToken |->
                      GivenOrNull(data, "facebookAccessToken"),
                  partnerMobile |-> GivenOrNull(data, "partnerMobile"),
                  wabaId |-> GivenOrNull(data, "wabaId"),
                  campaignApiKey |-> GivenOrNull(data, "campaignApiKey")]
         IN [settingsData |-> Put(sd, id, settings),
             settingsCurrentId |-> id + 1, ret |-> Ok(settings)]

\* updateSettings run without another call in between
MemUpdateSettings(sd, id, accountId, data, t) ==
    MemStoreSettings(sd, id, MemGetSettings(sd, accountId), accountId, data, t)

\* the rows select ... where accountId = ? returns; getSettings takes
\* result[0], and the select states no order
DbSelectSettings(tbl, accountId) ==
    {r \in Values(tbl) : r.accountId = accountId}

\* a column the insert does not name takes its default, null
GivenOrDefault(data, f) ==
    IF f \in DOMAIN data THEN data[f] ELSE Null

\* existing is what getSettings(accountId) returned: a row, or NotFound
DbUpdateSettings(tbl, seq, existing, accountId, data, t) ==
    IF existing # NotFound
    THEN LET updated == [k \in DOMAIN tbl |->
                           IF tbl[k].id = existing.id
                           THEN MergedSettings(tbl[k], data, t)
                           ELSE tbl[k]]
         IN [settings |-> updated, seq |-> seq, ret |-> Ok(updated[existing.id])]
    ELSE LET row == [id |-> seq,
                     accountId |-> accountId,
                     updatedAt |-> t,
                     wabaApiUrl |-> GivenOrDefault(data, "wabaApiUrl"),
                     facebookAccessToken |->
                         GivenOrDefault(data, "facebookAccessToken"),
                     partnerMobile |-> GivenOrDefault(data, "partnerMobile"),
                     wabaId |-> GivenOrDefault(data, "wabaId"),
                     campaignApiKey |-> GivenOrDefault(data, "campaignApiKey")]
         IN [settings |-> Put(tbl, seq, row), seq |-> seq + 1, ret |-> Ok(row)]

----------------------------------------------------------------------------
(* Inputs *)

AccountIds == {1, 2}
Usernames == {"ann"}
Passwords == {"p2"}
InsertUsers == [username : Usernames, password : {"p1"}, email : {Undefined}]
UserIds == 1..(MaxUsers + 1)
Tokens == 1..(MaxTokens + 1)

Names == {<<"B">>}
Mobiles == {<<"1">>, <<"2">>}
InsertContacts ==
    [name : Names, mobile : Mobiles, accountId : AccountIds,
     label : {"vip", ""}, location : {"NY", Undefined}]
ContactFilterInputs ==
    [search : {<<>>, <<"b">>, <<"1">>}, label : {Undefined, "vip"},
     location : {Undefined, "NY"}, dateRange : {Undefined, "all"}]
    \cup {NoFilters}
ContactIds == 1..(MaxContacts + 1)

\* partials of a contact, each a record of the fields it gives
ContactUpdates ==
    {[label |-> "", location |-> "LA"], [mobile |-> <<"2">>, accountId |-> 2]}

\* the records of an import file: one name, no label, no location
ImportRecords ==
    [name : Names, mobile : Mobiles, accountId : AccountIds,
     label : {Undefined}, location : {Undefined}]
ImportLists == UNION {[1..n -> ImportRecords] : n \in 0..MaxImport}

\* the import files of account 1
OneAccountLists ==
    {list \in ImportLists : \A i \in 1..Len(list) : list[i].accountId = 1}

CampaignNames == {<<"S">>}
InsertCampaigns ==
    [name : CampaignNames, template : {"hello"}, contactLabel : {"vip", ""},
     status : {Undefined, "active"}, scheduledFor : {Undefined},
     accountId : AccountIds]
\* partials of a campaign, each a record of the fields it gives
CampaignUpdates ==
    {[name |-> <<"s", "2">>, contactLabel |-> ""],
     [status |-> "active"]}
CampaignFilterInputs ==
    [search : {<<>>, <<"s">>}, status : {Undefined, "draft"},
     dateRange : {Undefined, "all"}]
    \cup {NoFilters}
CampaignIds == 1..(MaxCampaigns + 1)
InsertAnalyticsInputs ==
    [campaignId : 1..MaxCampaigns, accountId : {1}, sent : {NotGiven, 5},
     delivered : {NotGiven, 3}, read : {NotGiven}, optout : {NotGiven},
     hold : {NotGiven}, failed : {NotGiven}]

\* the first report of a campaign: no counter given yet
FirstAnalyticsInputs ==
    [campaignId : {1, 2}, accountId : AccountIds, sent : {NotGiven},
     delivered : {NotGiven}, read : {NotGiven}, optout : {NotGiven},
     hold : {NotGiven}, failed : {NotGiven}]

\* partials of InsertSettings, each a record of the fields it gives;
\* InsertSettings has the columns of a Settings row but id and updatedAt
SettingsUpdates ==
    {[wabaId |-> "w1"], [wabaId |-> "", campaignApiKey |-> "k1"],
     [campaignApiKey |-> "k2"], [accountId |-> 2, wabaId |-> "w2"]}

----------------------------------------------------------------------------
(* State after construction: new MemStorage() and an empty database *)

InitUsers ==
    /\ users = EmptyMap
    /\ userCurrentId = 1
    /\ dbUsers = EmptyMap
    /\ dbUsersSeq = 1
    /\ tokenSeq = 0
    /\ tokenOwner = EmptyMap

InitContacts ==
    /\ contacts = EmptyMap
    /\ contactCurrentId = 1
    /\ dbContacts = EmptyMap
    /\ dbContactsSeq = 1

InitCampaigns ==
    /\ campaigns = EmptyMap
    /\ campaignCurrentId = 1
    /\ analyticsData = EmptyMap
    /\ analyticsCurrentId = 1
    /\ dbCampaigns = EmptyMap
    /\ dbCampaignsSeq = 1
    /\ dbAnalytics = EmptyMap
    /\ dbAnalyticsSeq = 1
    /\ launched = {}

InitSettings ==
    /\ settingsData = EmptyMap
    /\ settingsCurrentId = 1
    /\ dbSettings = EmptyMap
    /\ dbSettingsSeq = 1

\* both classes are in hand only once ./db and the storage module have loaded,
\* which takes a connection string
InitLoaded ==
    /\ dbConfigUrl = Url
    /\ dbModule = "loaded"
    /\ storage = "DatabaseStorage"
    /\ sessionStore = "PostgresStore"

\* no MemStorage call is in progress
InitTasks == tasks = EmptyMap

\* the stores are empty and the clock starts
InitStores ==
    /\ now = 0
    /\ ret = Ok(NotFound)
    /\ dbRet = Ok(NotFound)
    /\ InitUsers
    /\ InitContacts
    /\ InitCampaigns
    /\ InitSettings
    /\ InitTasks

Init ==
    /\ call = [op |-> "constructor"]
    /\ InitStores
    /\ InitLoaded

----------------------------------------------------------------------------
(* The clock *)

Tick ==
    /\ now < MaxTime
    /\ now' = now + 1
    /\ call' = [op |-> "tick"]
    /\ ret' = Ok(NotFound)
    /\ dbRet' = Ok(NotFound)
    /\ UNCHANGED <<otherVars, userVars, contactVars, campaignVars>>

----------------------------------------------------------------------------
(* User calls *)

CreateUser ==
    \E insertUser \in InsertUsers :
        LET m == MemCreateUser(users, userCurrentId, insertUser, now)
            d == DbCreateUser(dbUsers, dbUsersSeq, insertUser, now)
        IN /\ userCurrentId <= MaxUsers
           /\ users' = m.users
           /\ userCurrentId' = m.userCurrentId
           /\ dbUsers' = d.users
           /\ dbUsersSeq' = d.seq
           /\ call' = [op |-> "createUser", user |-> insertUser]
           /\ ret' = m.ret
           /\ dbRet' = d.ret
           /\ UNCHANGED <<otherVars, now, tokenSeq, tokenOwner, contactVars, campaignVars>>

CreateResetToken ==
    \E userId \in UserIds :
        LET token == tokenSeq + 1
            m == MemCreateResetToken(users, userId, token, now)
            d == DbCreateResetToken(dbUsers, userId, token, now)
        IN /\ tokenSeq < MaxTokens
           /\ users' = m.users
           /\ dbUsers' = d.users
           /\ tokenSeq' = IF m.ret.threw /\ d.ret.threw THEN tokenSeq ELSE token
           /\ tokenOwner' = IF m.ret.threw /\ d.ret.threw THEN tokenOwner
                             ELSE Put(tokenOwner, token, userId)
           /\ call' = [op |-> "createResetToken", userId |-> userId]
           /\ ret' = m.ret
           /\ dbRet' = d.ret
           /\ UNCHANGED <<otherVars, now, userCurrentId, dbUsersSeq, contactVars, campaignVars>>

VerifyResetToken ==
    \E token \in Tokens :
        /\ call' = [op |-> "verifyResetToken", token |-> token]
        /\ ret' = MemVerifyResetToken(users, token, now)
        /\ dbRet' = DbVerifyResetToken(dbUsers, token, now)
        /\ UNCHANGED <<otherVars, now, userVars, contactVars, campaignVars>>

UpdatePassword ==
    \E userId \in UserIds : \E password \in Passwords :
        LET m == MemUpdatePassword(users, userId, password)
            d == DbUpdatePassword(dbUsers, userId, password)
        IN /\ users' = m.users
           /\ dbUsers' = d.users
           /\ call' = [op |-> "updatePassword", userId |-> userId,
                       password |-> password]
           /\ ret' = m.ret
           /\ dbRet' = d.ret
           /\ UNCHANGED <<otherVars, now, tokenSeq, tokenOwner, userCurrentId, dbUsersSeq,
                          contactVars, campaignVars>>

----------------------------------------------------------------------------
(* Contact calls *)

CreateContactOf(inputs) ==
    \E insertContact \in inputs :
        LET m == MemCreateContact(contacts, contactCurrentId, insertContact, now)
            d == DbCreateContact(dbContacts, dbContactsSeq, insertContact, now)
        IN /\ contactCurrentId <= MaxContacts
           /\ contacts' = m.contacts
           /\ contactCurrentId' = m.contactCurrentId
           /\ dbContacts' = d.contacts
           /\ dbContactsSeq' = d.seq
           /\ call' = [op |-> "createContact", contact |-> insertContact]
           /\ ret' = m.ret
           /\ dbRet' = d.ret
           /\ UNCHANGED <<otherVars, now, userVars, campaignVars>>

CreateContact == CreateContactOf(InsertContacts)

\* createContact with one record of an import file
CreateImportedContact == CreateContactOf(ImportRecords)

\* createContact with the same name and mobile, by any account
CreateSameContact ==
    CreateContactOf({c \in ImportRecords : c.mobile = <<"1">>})

GetContactsOf(inputs) ==
    \E accountId \in AccountIds : \E filters \in inputs :
        /\ call' = [op |-> "getContacts", accountId |-> accountId,
                    filters |-> filters]
        /\ ret' = MemGetContacts(contacts, accountId, filters, now)
        /\ dbRet' = DbGetContacts(dbContacts, accountId, filters, now)
        /\ UNCHANGED <<otherVars, now, userVars, contactVars, campaignVars>>

GetContacts == GetContactsOf(ContactFilterInputs)

\* getContacts without filters or with a search alone
GetContactsBySearch ==
    GetContactsOf({f \in ContactFilterInputs :
                     \/ f = NoFilters
                     \/ /\ f.search = <<"1">>
                        /\ f.label = Undefined
                        /\ f.location = Undefined
                        /\ f.dateRange = Undefined})

GetContactByMobile ==
    \E mobile \in Mobiles : \E accountId \in AccountIds :
        LET result == DbSelectContactByMobile(dbContacts, mobile, accountId)
        IN /\ call' = [op |-> "getContactByMobile", mobile |-> mobile,
                       accountId |-> accountId]
           /\ ret' = Ok(MemGetContactByMobile(contacts, mobile, accountId))
           /\ IF result = {} THEN dbRet' = Ok(NotFound)
              ELSE \E r \in result : dbRet' = Ok(r)
           /\ UNCHANGED <<otherVars, now, userVars, contactVars, campaignVars>>

DeleteContact ==
    \E id \in ContactIds :
        LET m == MemDeleteContact(contacts, id)
            d == DbDeleteContact(dbContacts, id)
        IN /\ contacts' = m.contacts
           /\ dbContacts' = d.contacts
           /\ call' = [op |-> "deleteContact", id |-> id]
           /\ ret' = m.ret
           /\ dbRet' = d.ret
           /\ UNCHANGED <<otherVars, now, userVars, campaignVars, contactCurrentId, dbContactsSeq>>

UpdateContact ==
    \E id \in ContactIds : \E updateData \in ContactUpdates :
        LET m == MemUpdateContact(contacts, id, updateData)
            d == DbUpdateContact(dbContacts, id, updateData)
        IN /\ contacts' = m.contacts
           /\ dbContacts' = d.contacts
           /\ call' = [op |-> "updateContact", id |-> id, updateData |-> updateData]
           /\ ret' = m.ret
           /\ dbRet' = d.ret
           /\ UNCHANGED <<otherVars, now, userVars, campaignVars, contactCurrentId,
                          dbContactsSeq>>

ImportContacts ==
    \E list \in ImportLists : \E deduplicateByMobile \in BOOLEAN :
        LET m == MemImportContacts(contacts, contactCurrentId, list,
                                   deduplicateByMobile, now, 0, 0)
            d == DbImportContacts(dbContacts, dbContactsSeq, list,
                                  deduplicateByMobile, now, 0, 0)
        IN /\ contactCurrentId + Len(list) <= MaxImported + 1
           /\ contacts' = m.contacts
           /\ contactCurrentId' = m.contactCurrentId
           /\ dbContacts' = d.contacts
           /\ dbContactsSeq' = d.seq
           /\ call' = [op |-> "importContacts", list |-> list,
                       deduplicateByMobile |-> deduplicateByMobile]
           /\ ret' = m.ret
           /\ dbRet' = d.ret
           /\ UNCHANGED <<otherVars, now, userVars, campaignVars>>

NextContacts ==
    \/ Tick
    \/ CreateContact
    \/ GetContacts
    \/ GetContactByMobile

SpecContacts == Init /\ [][NextContacts]_vars

NextLookup ==
    \/ Tick
    \/ CreateContact
    \/ GetContactByMobile
    \/ DeleteContact

SpecLookup == Init /\ [][NextLookup]_vars

\* importContacts against a database that rejects one insert; the Map of
\* MemStorage rejects none
ImportContactsFailing ==
    \E list \in OneAccountLists : \E deduplicateByMobile \in BOOLEAN :
    \E failAt \in 0..Len(list) :
        LET m == MemImportContacts(contacts, contactCurrentId, list,
                                   deduplicateByMobile, now, 0, 0)
            d == DbImportContactsFailing(dbContacts, dbContactsSeq, list,
                                         deduplicateByMobile, now, 0, 0, failAt)
        IN /\ contactCurrentId + Len(list) <= MaxImported + 1
           /\ contacts' = m.contacts
           /\ contactCurrentId' = m.contactCurrentId
           /\ dbContacts' = d.contacts
           /\ dbContactsSeq' = d.seq
           /\ call' = [op |-> "importContacts", list |-> list,
                       deduplicateByMobile |-> deduplicateByMobile,
                       failAt |-> failAt]
           /\ ret' = m.ret
           /\ dbRet' = d.ret
           /\ UNCHANGED <<otherVars, now, userVars, campaignVars>>

NextImportFailure ==
    \/ CreateSameContact
    \/ ImportContactsFailing

SpecImportFailure == Init /\ [][NextImportFailure]_vars

\* create, update and delete of contacts
NextContactCrud ==
    \/ Tick
    \/ CreateSameContact
    \/ UpdateContact
    \/ DeleteContact

SpecContactCrud == Init /\ [][NextContactCrud]_vars

NextImport ==
    \/ CreateImportedContact
    \/ DeleteContact
    \/ ImportContacts

SpecImport == Init /\ [][NextImport]_vars

----------------------------------------------------------------------------
(* Campaign and analytics calls *)

\* createCampaign while fewer than limit campaigns were ever created
CreateCampaignWithin(inputs, limit) ==
    \E insertCampaign \in inputs :
        LET m == MemCreateCampaign(campaigns, campaignCurrentId, insertCampaign, now)
            d == DbCreateCampaign(dbCampaigns, dbCampaignsSeq, insertCampaign, now)
        IN /\ campaignCurrentId <= limit
           /\ campaigns' = m.campaigns
           /\ campaignCurrentId' = m.campaignCurrentId
           /\ dbCampaigns' = d.campaigns
           /\ dbCampaignsSeq' = d.seq
           /\ call' = [op |-> "createCampaign", campaign |-> insertCampaign]
           /\ ret' = m.ret
           /\ dbRet' = d.ret
           /\ UNCHANGED <<otherVars, now, userVars, contactVars, analyticsData,
                          analyticsCurrentId, dbAnalytics, dbAnalyticsSeq, launched>>

CreateCampaignOf(inputs) == CreateCampaignWithin(inputs, MaxCampaigns)

\* createCampaign by account 1, status and label left out, once more than the
\* other specifications allow: a campaign can follow a deleted one
CreateLaterCampaign ==
    CreateCampaignWithin({c \in InsertCampaigns :
                            /\ c.status = Undefined
                            /\ c.contactLabel = ""
                            /\ c.accountId = 1},
                         MaxCampaigns + 1)

\* createCampaign by any account
CreateCampaign == CreateCampaignOf(InsertCampaigns)

\* createCampaign by any account, status and label left out
CreateDraftCampaign ==
    CreateCampaignOf({c \in InsertCampaigns :
                        c.status = Undefined /\ c.contactLabel = ""})

\* createCampaign by the one account that also reports analytics
CreateOwnCampaign == CreateCampaignOf({c \in InsertCampaigns : c.accountId = 1})

GetCampaignsOf(inputs) ==
    \E accountId \in AccountIds : \E filters \in inputs :
        /\ call' = [op |-> "getCampaigns", accountId |-> accountId,
                    filters |-> filters]
        /\ ret' = MemGetCampaigns(campaigns, accountId, filters, now)
        /\ dbRet' = DbGetCampaigns(dbCampaigns, accountId, filters, now)
        /\ UNCHANGED <<otherVars, now, userVars, contactVars, campaignVars>>

GetCampaigns == GetCampaignsOf(CampaignFilterInputs)

\* getCampaigns without filters or with a search alone
GetCampaignsBySearch ==
    GetCampaignsOf({f \in CampaignFilterInputs :
                      \/ f = NoFilters
                      \/ /\ f.search = <<"s">>
                         /\ f.status = Undefined
                         /\ f.dateRange = Undefined})

UpdateCampaign ==
    \E id \in CampaignIds : \E updateData \in CampaignUpdates :
        LET m == MemUpdateCampaign(campaigns, id, updateData)
            d == DbUpdateCampaign(dbCampaigns, id, updateData)
        IN /\ campaigns' = m.campaigns
           /\ dbCampaigns' = d.campaigns
           /\ call' = [op |-> "updateCampaign", id |-> id, updateData |-> updateData]
           /\ ret' = m.ret
           /\ dbRet' = d.ret
           /\ UNCHANGED <<otherVars, now, userVars, contactVars, campaignCurrentId,
                          dbCampaignsSeq, analyticsData, analyticsCurrentId,
                          dbAnalytics, dbAnalyticsSeq, launched>>

DeleteCampaign ==
    \E id \in CampaignIds :
        LET m == MemDeleteCampaign(campaigns, id)
            d == DbDeleteCampaign(dbCampaigns, id)
        IN /\ campaigns' = m.campaigns
           /\ dbCampaigns' = d.campaigns
           /\ call' = [op |-> "deleteCampaign", id |-> id]
           /\ ret' = m.ret
           /\ dbRet' = d.ret
           /\ UNCHANGED <<otherVars, now, userVars, contactVars, campaignCurrentId,
                          dbCampaignsSeq, analyticsData, analyticsCurrentId,
                          dbAnalytics, dbAnalyticsSeq, launched>>

LaunchCampaign ==
    \E id \in CampaignIds :
        LET m == MemLaunchCampaign(campaigns, analyticsData, analyticsCurrentId,
                                   id, now)
            d == DbLaunchCampaign(dbCampaigns, dbAnalytics, dbAnalyticsSeq, id, now)
        IN /\ campaigns' = m.campaigns
           /\ analyticsData' = m.analyticsData
           /\ analyticsCurrentId' = m.analyticsCurrentId
           /\ dbCampaigns' = d.campaigns
           /\ dbAnalytics' = d.analytics
           /\ dbAnalyticsSeq' = d.seq
           /\ launched' = IF m.ret.value.bool \/ d.ret.value.bool
                          THEN launched \cup {id} ELSE launched
           /\ call' = [op |-> "launchCampaign", id |-> id]
           /\ ret' = m.ret
           /\ dbRet' = d.ret
           /\ UNCHANGED <<otherVars, now, userVars, contactVars, campaignCurrentId,
                          dbCampaignsSeq>>

CreateOrUpdateAnalyticsOf(inputs) ==
    \E insertAnalytics \in inputs :
        LET m == MemCreateOrUpdateAnalytics(analyticsData, analyticsCurrentId,
                                            insertAnalytics, now)
            d == DbCreateOrUpdateAnalytics(dbAnalytics, dbAnalyticsSeq,
                                           insertAnalytics, now)
        IN /\ analyticsData' = m.analyticsData
           /\ analyticsCurrentId' = m.analyticsCurrentId
           /\ dbAnalytics' = d.analytics
           /\ dbAnalyticsSeq' = d.seq
           /\ call' = [op |-> "createOrUpdateAnalytics",
                       analytics |-> insertAnalytics,
                       existed |-> \E a \in Values(analyticsData) :
                                      a.campaignId = insertAnalytics.campaignId]
           /\ ret' = m.ret
           /\ dbRet' = d.ret
           /\ UNCHANGED <<otherVars, now, userVars, contactVars, campaigns, campaignCurrentId,
                          dbCampaigns, dbCampaignsSeq, launched>>

CreateOrUpdateAnalytics == CreateOrUpdateAnalyticsOf(InsertAnalyticsInputs)

\* createOrUpdateAnalytics with the first report of a campaign, by any account
CreateFirstAnalytics == CreateOrUpdateAnalyticsOf(FirstAnalyticsInputs)

GetAnalytics ==
    \E accountId \in AccountIds : \E campaignId \in {0} \cup CampaignIds :
        /\ call' = [op |-> "getAnalytics", accountId |-> accountId,
                    campaignId |-> campaignId]
        /\ ret' = MemGetAnalytics(analyticsData, accountId, campaignId)
        /\ dbRet' = DbGetAnalytics(dbAnalytics, accountId, campaignId)
        /\ UNCHANGED <<otherVars, now, userVars, contactVars, campaignVars>>

NextCampaigns ==
    \/ CreateOwnCampaign
    \/ UpdateCampaign
    \/ DeleteCampaign
    \/ LaunchCampaign
    \/ CreateOrUpdateAnalytics

SpecCampaigns == Init /\ [][NextCampaigns]_vars

\* campaigns that are created, launched, deleted and followed by others
NextCampaignDelete ==
    \/ CreateLaterCampaign
    \/ LaunchCampaign
    \/ DeleteCampaign
    \/ CreateOrUpdateAnalytics
    \/ GetAnalytics

SpecCampaignDelete == Init /\ [][NextCampaignDelete]_vars

NextCampaignFilters ==
    \/ Tick
    \/ CreateCampaign
    \/ LaunchCampaign
    \/ GetCampaigns

SpecCampaignFilters == Init /\ [][NextCampaignFilters]_vars

\* the reads by account, over contacts, campaigns and analytics of two accounts
NextScoping ==
    \/ CreateSameContact
    \/ GetContactsBySearch
    \/ CreateDraftCampaign
    \/ GetCampaignsBySearch
    \/ CreateFirstAnalytics
    \/ GetAnalytics

SpecScoping == Init /\ [][NextScoping]_vars

NextUsers ==
    \/ Tick
    \/ CreateUser
    \/ CreateResetToken
    \/ VerifyResetToken
    \/ UpdatePassword

SpecUsers == Init /\ [][NextUsers]_vars

\* the calls that make and look up reset tokens
NextTokens ==
    \/ Tick
    \/ CreateUser
    \/ CreateResetToken
    \/ VerifyResetToken

SpecTokens == Init /\ [][NextTokens]_vars

----------------------------------------------------------------------------
(* Settings calls *)

GetSettings ==
    \E accountId \in AccountIds :
        LET result == DbSelectSettings(dbSettings, accountId)
        IN /\ call' = [op |-> "getSettings", accountId |-> accountId]
           /\ ret' = Ok(MemGetSettings(settingsData, accountId))
           /\ IF result = {} THEN dbRet' = Ok(NotFound)
              ELSE \E r \in result : dbRet' = Ok(r)
           /\ UNCHANGED <<now, userVars, contactVars, campaignVars, settingsVars,
                          restVars>>

UpdateSettings ==
    \E accountId \in AccountIds : \E data \in SettingsUpdates :
        \E existing \in DbSelectSettings(dbSettings, accountId) \cup {NotFound} :
            LET m == MemUpdateSettings(settingsData, settingsCurrentId, accountId,
                                       data, now)
                d == DbUpdateSettings(dbSettings, dbSettingsSeq, existing,
                                      accountId, data, now)
            IN /\ existing = NotFound <=> DbSelectSettings(dbSettings, accountId) = {}
               /\ m.settingsCurrentId <= MaxSettings + 1
               /\ d.seq <= MaxSettings + 1
               /\ settingsData' = m.settingsData
               /\ settingsCurrentId' = m.settingsCurrentId
               /\ dbSettings' = d.settings
               /\ dbSettingsSeq' = d.seq
               /\ call' = [op |-> "updateSettings", accountId |-> accountId,
                           settingsData |-> data]
               /\ ret' = m.ret
               /\ dbRet' = d.ret
               /\ UNCHANGED <<now, userVars, contactVars, campaignVars, restVars>>

NextSettings ==
    \/ Tick
    \/ GetSettings
    \/ UpdateSettings

SpecSettings == Init /\ [][NextSettings]_vars

----------------------------------------------------------------------------
(* MemStorage calls in progress together.  An async method runs to its next
   await without a break; `await` of another method of the class runs that
   method's body at once (none of them awaits anything) and then lets the
   other callers go on before the awaiting method resumes. *)

Callers == {1, 2}

\* the lists and partials the callers pass: contacts and settings of account 1
ConcurrentLists ==
    {list \in ImportLists :
        /\ Len(list) \in 1..2
        /\ \A i \in 1..Len(list) : list[i].accountId = 1}
ConcurrentUpdates == {[wabaId |-> "w1"], [campaignApiKey |-> "k2"]}

\* the collections a call in progress reads and writes
MemStores ==
    [contacts |-> contacts, contactCurrentId |-> contactCurrentId,
     settingsData |-> settingsData, settingsCurrentId |-> settingsCurrentId]

\* the stores when the calls now in progress began: those of the first of them
Base == IF DOMAIN tasks = {} THEN MemStores
        ELSE tasks[Min(DOMAIN tasks)].base

\* the top of the for loop of importContacts at record task.i, up to its await
ImportEnter(st, task, t) ==
    IF task.i > Len(task.list)
    THEN [stores |-> st,
          task |-> [task EXCEPT !.pc = "returned",
                                !.ret = Ok([imported |-> task.imported,
                                            duplicates |-> task.duplicates])]]
    ELSE IF task.deduplicateByMobile
    THEN [stores |-> st,
          task |-> [task EXCEPT !.pc = "await getContactByMobile",
                                !.existing =
                                    MemGetContactByMobile(st.contacts,
                                        task.list[task.i].mobile,
                                        task.list[task.i].accountId)]]
    ELSE LET m == MemCreateContact(st.contacts, st.contactCurrentId,
                                   task.list[task.i], t)
         IN [stores |-> [st EXCEPT !.contacts = m.contacts,
                                   !.contactCurrentId = m.contactCurrentId],
             task |-> [task EXCEPT !.pc = "await createContact"]]

\* importContacts from the await it stopped at to its next await or return
ImportResume(st, task, t) ==
    IF task.pc = "await getContactByMobile"
    THEN IF task.existing # NotFound
         THEN ImportEnter(st, [task EXCEPT !.duplicates = @ + 1, !.i = @ + 1], t)
         ELSE LET m == MemCreateContact(st.contacts, st.contactCurrentId,
                                        task.list[task.i], t)
              IN [stores |-> [st EXCEPT !.contacts = m.contacts,
                                        !.contactCurrentId = m.contactCurrentId],
                  task |-> [task EXCEPT !.pc = "await createContact"]]
    ELSE ImportEnter(st, [task EXCEPT !.imported = @ + 1, !.i = @ + 1], t)

\* updateSettings after `await this.getSettings(accountId)`
SettingsResume(st, task, t) ==
    LET m == MemStoreSettings(st.settingsData, st.settingsCurrentId,
                              task.existing, task.accountId, task.data, t)
    IN [stores |-> [st EXCEPT !.settingsData = m.settingsData,
                              !.settingsCurrentId = m.settingsCurrentId],
        task |-> [task EXCEPT !.pc = "returned", !.ret = m.ret]]

InProgress(op) ==
    {c \in DOMAIN tasks : tasks[c].op = op /\ tasks[c].pc # "returned"}

\* the inserts the imports in progress may still make
RECURSIVE PendingInserts(_)
PendingInserts(cs) ==
    IF cs = {} THEN 0
    ELSE LET c == Min(cs) IN Len(tasks[c].list) + PendingInserts(cs \ {c})

StepTo(caller, step, what) ==
    /\ contacts' = step.stores.contacts
    /\ contactCurrentId' = step.stores.contactCurrentId
    /\ settingsData' = step.stores.settingsData
    /\ settingsCurrentId' = step.stores.settingsCurrentId
    /\ tasks' = Put(tasks, caller, step.task)
    /\ call' = [op |-> step.task.op, caller |-> caller, step |-> what]
    /\ ret' = IF step.task.pc = "returned" THEN step.task.ret ELSE ret
    /\ UNCHANGED <<now, dbRet, userVars, campaignVars, processVars,
                   dbContacts, dbContactsSeq, dbSettings, dbSettingsSeq>>

CallImportContacts ==
    \E caller \in Callers \ DOMAIN tasks :
    \E list \in ConcurrentLists : \E deduplicateByMobile \in BOOLEAN :
        /\ contactCurrentId + Len(list)
             + PendingInserts(InProgress("importContacts")) <= MaxImported + 1
        /\ StepTo(caller,
                  ImportEnter(MemStores,
                              [op |-> "importContacts", list |-> list,
                               deduplicateByMobile |-> deduplicateByMobile,
                               i |-> 1, pc |-> "called", existing |-> NotFound,
                               imported |-> 0, duplicates |-> 0,
                               ret |-> Ok(NotFound), base |-> Base], now),
                  "call")

ResumeImportContacts ==
    \E caller \in InProgress("importContacts") :
        StepTo(caller, ImportResume(MemStores, tasks[caller], now), "resume")

CallUpdateSettings ==
    \E caller \in Callers \ DOMAIN tasks :
    \E accountId \in {1} : \E data \in ConcurrentUpdates :
        /\ settingsCurrentId + Cardinality(InProgress("updateSettings"))
             <= MaxSettings
        /\ StepTo(caller,
                  [stores |-> MemStores,
                   task |-> [op |-> "updateSettings", accountId |-> accountId,
                             data |-> data, pc |-> "await getSettings",
                             existing |-> MemGetSettings(settingsData, accountId),
                             ret |-> Ok(NotFound), base |-> Base]],
                  "call")

ResumeUpdateSettings ==
    \E caller \in InProgress("updateSettings") :
        StepTo(caller, SettingsResume(MemStores, tasks[caller], now), "resume")

\* every call in progress has returned and the callers have their results
AllReturned ==
    /\ DOMAIN tasks # {}
    /\ \A c \in DOMAIN tasks : tasks[c].pc = "returned"

Settle ==
    /\ AllReturned
    /\ tasks' = EmptyMap
    /\ call' = [op |-> "settle"]
    /\ UNCHANGED <<now, ret, dbRet, userVars, contactVars, campaignVars,
                   settingsVars, processVars>>

NextConcurrent ==
    \/ CallImportContacts
    \/ ResumeImportContacts
    \/ CallUpdateSettings
    \/ ResumeUpdateSettings
    \/ Settle

SpecConcurrent == Init /\ [][NextConcurrent]_vars

----------------------------------------------------------------------------
(* Process start: the modules ./db and ./storage *)

\* the values DB_CONFIG.url may have when the process starts
ConfigUrls == {Undefined, "", Url}

\* module ./db: throws unless DB_CONFIG.url is set, else exports pool and db
DbModule(url) ==
    IF ~Truthy(url)
    THEN [dbModule |-> "failed",
          ret |-> Throw("DATABASE_URL must be set. Did you forget to provision a database?")]
    ELSE [dbModule |-> "loaded", ret |-> Ok(NotFound)]

\* the session store when new PostgresStore(...) throws in place of the try
\* without its catch
ConstructorWithoutCatch(postgresStoreThrows) ==
    IF postgresStoreThrows
    THEN [sessionStore |-> "none", ret |-> Throw("PostgresStore")]
    ELSE [sessionStore |-> "PostgresStore", ret |-> Ok(NotFound)]

\* DatabaseStorage constructor: try new PostgresStore, catch new MemoryStore
DatabaseStorageConstructor(postgresStoreThrows) ==
    IF postgresStoreThrows
    THEN [sessionStore |-> "MemoryStore", ret |-> Ok(NotFound)]
    ELSE [sessionStore |-> "PostgresStore", ret |-> Ok(NotFound)]

\* export const storage = DB_CONFIG.url ? new DatabaseStorage() : new MemStorage()
StorageSingleton(url, postgresStoreThrows) ==
    IF Truthy(url)
    THEN LET c == DatabaseStorageConstructor(postgresStoreThrows)
         IN [storage |-> IF c.ret.threw THEN "failed" ELSE "DatabaseStorage",
             sessionStore |-> c.sessionStore, ret |-> c.ret]
    ELSE [storage |-> "MemStorage", sessionStore |-> "MemoryStore",
          ret |-> Ok(NotFound)]

\* the process before any module is loaded
InitProcess ==
    /\ call = [op |-> "start"]
    /\ InitStores
    /\ dbConfigUrl \in ConfigUrls
    /\ dbModule = "unloaded"
    /\ storage = "unloaded"
    /\ sessionStore = "none"

\* import { db, pool } from "./db": the storage module's imports are
\* evaluated before its own body
ImportDb ==
    LET m == DbModule(dbConfigUrl)
    IN /\ dbModule = "unloaded"
       /\ dbModule' = m.dbModule
       /\ call' = [op |-> "import ./db"]
       /\ ret' = m.ret
       /\ dbRet' = m.ret
       /\ UNCHANGED <<now, dbConfigUrl, storage, sessionStore, userVars, contactVars,
                      campaignVars, settingsVars, taskVars>>

\* the import of ./db threw: the body of the storage module does not run
ImportFails ==
    /\ dbModule = "failed"
    /\ storage = "unloaded"
    /\ storage' = "failed"
    /\ call' = [op |-> "import ./storage"]
    /\ UNCHANGED <<now, ret, dbRet, dbConfigUrl, dbModule, sessionStore, userVars,
                   contactVars, campaignVars, settingsVars, taskVars>>

\* the body of the storage module, which builds the singleton
ExportStorage ==
    \E postgresStoreThrows \in BOOLEAN :
        LET m == StorageSingleton(dbConfigUrl, postgresStoreThrows)
        IN /\ dbModule = "loaded"
           /\ storage = "unloaded"
           /\ storage' = m.storage
           /\ sessionStore' = m.sessionStore
           /\ call' = [op |-> "export storage", url |-> dbConfigUrl,
                       postgresStoreThrows |-> postgresStoreThrows]
           /\ ret' = m.ret
           /\ dbRet' = m.ret
           /\ UNCHANGED <<now, dbConfigUrl, dbModule, userVars, contactVars,
                          campaignVars, settingsVars, taskVars>>

\* the singleton is there to take calls
Serving == storage \in {"DatabaseStorage", "MemStorage"}

NextProcess ==
    \/ ImportDb
    \/ ImportFails
    \/ ExportStorage
    \/ Serving /\ CreateOwnCampaign
    \/ Serving /\ LaunchCampaign
    \/ Serving /\ DeleteCampaign
    \/ Serving /\ CreateOrUpdateAnalytics

SpecProcess == InitProcess /\ [][NextProcess]_vars

\* every call of the storage interface modelled here, on one store
Next ==
    \/ Tick
    \/ CreateUser
    \/ CreateResetToken
    \/ VerifyResetToken
    \/ UpdatePassword
    \/ CreateContact
    \/ GetContacts
    \/ GetContactByMobile
    \/ UpdateContact
    \/ DeleteContact
    \/ ImportContacts
    \/ CreateCampaign
    \/ GetCampaigns
    \/ UpdateCampaign
    \/ DeleteCampaign
    \/ LaunchCampaign
    \/ CreateOrUpdateAnalytics
    \/ GetSettings
    \/ UpdateSettings

Spec == Init /\ [][Next]_vars

----------------------------------------------------------------------------
(* Contacts *)

\* name or mobile matches the search, as each backend matches
MemSearchHit(c, search) ==
    \/ Includes(ToLowerCase(c.name), ToLowerCase(search))
    \/ Includes(ToLowerCase(c.mobile), ToLowerCase(search))
DbSearchHit(r, search) ==
    \/ Like(r.name, SearchTerm(search))
    \/ Like(r.mobile, SearchTerm(search))

\* the one filter of a getContacts call that the priority order selects:
\* search, then label, then location, then dateRange
FirstContactFilter(f) ==
    IF f = NoFilters THEN "none"
    ELSE IF f.search # <<>> THEN "search"
    ELSE IF Truthy(f.label) THEN "label"
    ELSE IF Truthy(f.location) THEN "location"
    ELSE IF Truthy(f.dateRange) THEN "dateRange"
    ELSE "none"

\* a contact passes the selected filter alone
PassesFirstContactFilter(c, f, hit) ==
    LET first == FirstContactFilter(f)
    IN CASE first = "search" -> hit
         [] first = "label" -> c.label = f.label
         [] first = "location" -> c.location = f.location
         [] first = "dateRange" -> c.createdAt >= StartDate(f.dateRange, now)
         [] OTHER -> TRUE

\* the one filter of a getCampaigns call that the priority order selects:
\* search, then status, then dateRange
FirstCampaignFilter(f) ==
    IF f = NoFilters THEN "none"
    ELSE IF f.search # <<>> THEN "search"
    ELSE IF Truthy(f.status) THEN "status"
    ELSE IF Truthy(f.dateRange) THEN "dateRange"
    ELSE "none"

\* a campaign passes the selected filter alone
PassesFirstCampaignFilter(c, f, hit) ==
    LET first == FirstCampaignFilter(f)
    IN CASE first = "search" -> hit
         [] first = "status" -> c.status = f.status
         [] first = "dateRange" -> c.createdAt >= StartDate(f.dateRange, now)
         [] OTHER -> TRUE

\* getContacts returned, in both backends, the contacts of the account that
\* pass the first filter in priority order
ContactsByFirstFilter ==
        /\ ret.value.rows =
              {c \in Values(contacts) :
                  /\ c.accountId = call.accountId
                  /\ PassesFirstContactFilter(c, call.filters,
                        call.filters # NoFilters
                           /\ MemSearchHit(c, call.filters.search))}
        /\ dbRet.value.rows =
              {r \in Values(dbContacts) :
                  /\ r.accountId = call.accountId
                  /\ PassesFirstContactFilter(r, call.filters,
                        call.filters # NoFilters
                           /\ DbSearchHit(r, call.filters.search))}

\* getCampaigns returned, in both backends, the campaigns of the account that
\* pass the first filter in priority order
CampaignsByFirstFilter ==
    /\ ret.value.rows =
          {c \in Values(campaigns) :
              /\ c.accountId = call.accountId
              /\ PassesFirstCampaignFilter(c, call.filters,
                    call.filters # NoFilters
                       /\ Includes(ToLowerCase(c.name),
                                   ToLowerCase(call.filters.search)))}
    /\ dbRet.value.rows =
          {r \in Values(dbCampaigns) :
              /\ r.accountId = call.accountId
              /\ PassesFirstCampaignFilter(r, call.filters,
                    call.filters # NoFilters
                       /\ Like(r.name, SearchTerm(call.filters.search)))}

\* C1: when several filter fields of a getContacts or getCampaigns call are
\* non-empty, only the first in priority order is applied, in both backends;
\* with {search, label} every contact of the account matching the search is
\* returned whatever its label.
C1_FirstFilterOnly ==
    /\ call.op = "getContacts" => ContactsByFirstFilter
    /\ call.op = "getCampaigns" => CampaignsByFirstFilter

\* C2: every call returns the same in both backends and leaves the same
\* entities stored.
C2_BackendEquivalence ==
    /\ ret = dbRet
    /\ contacts = dbContacts
    /\ users = dbUsers
    /\ campaigns = dbCampaigns
    /\ analyticsData = dbAnalytics

\* the (mobile, accountId) pair of record i of the list is stored in cs
PairStored(cs, list, i) ==
    \E k \in DOMAIN cs : /\ cs[k].mobile = list[i].mobile
                         /\ cs[k].accountId = list[i].accountId

\* the pair of record i occurs earlier in the list
PairEarlier(list, i) ==
    \E j \in 1..(i - 1) : /\ list[j].mobile = list[i].mobile
                          /\ list[j].accountId = list[i].accountId

\* what importContacts(list, true) does when `dup` of the N records count as
\* duplicates: the counts returned and the growth of the store
ImportOutcome(dup) ==
    LET N == Len(call'.list)
    IN /\ ret' = Ok([imported |-> N - dup, duplicates |-> dup])
       /\ Cardinality(DOMAIN contacts') = Cardinality(DOMAIN contacts) + N - dup
       /\ dbRet' = Ok([imported |-> N - dup, duplicates |-> dup])
       /\ Cardinality(DOMAIN dbContacts') = Cardinality(DOMAIN dbContacts) + N - dup

\* C3 as stated: with K the records whose pair is stored before the call,
\* importContacts(list, true) returns {imported: N-K, duplicates: K} and the
\* store grows by N-K, also when two records of the list share a new pair.
C3_ImportCountsStoredOnly ==
    [][(call'.op = "importContacts" /\ call'.deduplicateByMobile) =>
        ImportOutcome(Cardinality({i \in 1..Len(call'.list) :
                                      PairStored(contacts, call'.list, i)}))
    ]_vars

\* C3 amended: the duplicates are the records whose pair is stored before the
\* call or occurs earlier in the same list.
C3_ImportCountsStoredOrEarlier ==
    [][(call'.op = "importContacts" /\ call'.deduplicateByMobile) =>
        ImportOutcome(Cardinality({i \in 1..Len(call'.list) :
                                      \/ PairStored(contacts, call'.list, i)
                                      \/ PairEarlier(call'.list, i)}))
    ]_vars

\* C3 witness: a deduplicating import inserted a record, skipped one whose pair
\* was stored before the call and skipped one whose pair came earlier in the list
C3_Witness ==
    /\ call.op = "importContacts"
    /\ call.deduplicateByMobile
    /\ ret.value.imported >= 1
    /\ \E i \in 1..Len(call.list) :
          \E k \in DOMAIN contacts :
              /\ k < contactCurrentId - ret.value.imported
              /\ contacts[k].mobile = call.list[i].mobile
              /\ contacts[k].accountId = call.list[i].accountId
    /\ \E i \in 1..Len(call.list) :
          /\ PairEarlier(call.list, i)
          /\ \A k \in DOMAIN contacts :
                (contacts[k].mobile = call.list[i].mobile
                    /\ contacts[k].accountId = call.list[i].accountId)
                 => k >= contactCurrentId - ret.value.imported

\* the record createContact(c) is to store: c's fields, an empty label or
\* location being absent, with the id and createdAt the call assigns
Created(c, id, t) ==
    [id |-> id, createdAt |-> t, accountId |-> c.accountId, name |-> c.name,
     mobile |-> c.mobile, location |-> OrNull(c.location), label |-> OrNull(c.label)]

\* getContactByMobile(c.mobile, c.accountId) right after createContact(c)
\* returns the record that call created
LookupReturnsCreated ==
    LET c == call'.contact
    IN /\ ret' = Ok(Created(c, contactCurrentId, now))
       /\ MemGetContactByMobile(contacts', c.mobile, c.accountId) = ret'.value
       /\ dbRet' = Ok(Created(c, dbContactsSeq, now))
       /\ DbSelectContactByMobile(dbContacts', c.mobile, c.accountId) = {dbRet'.value}

\* C10 as stated: for every prior storage state.
C10_LookupAfterCreate ==
    [][call'.op = "createContact" => LookupReturnsCreated]_vars

\* C10 amended: for every prior storage state that holds no contact with c's
\* (mobile, accountId) pair.
C10_LookupAfterCreateOfNewPair ==
    [][(/\ call'.op = "createContact"
        /\ MemGetContactByMobile(contacts, call'.contact.mobile,
                                 call'.contact.accountId) = NotFound
        /\ DbSelectContactByMobile(dbContacts, call'.contact.mobile,
                                   call'.contact.accountId) = {})
        => LookupReturnsCreated
    ]_vars

\* C10 witness: a contact with a new pair and an empty label was created
\* beside an older contact
C10_Witness ==
    /\ call.op = "createContact"
    /\ call.contact.label = ""
    /\ Cardinality(DOMAIN contacts) >= 2
    /\ MemGetContactByMobile(contacts, call.contact.mobile, call.contact.accountId)
          = ret.value
    /\ ret.value.createdAt > 0

----------------------------------------------------------------------------
(* Campaign launch and analytics *)

\* the Analytics rows of a campaignId
MemRowsOf(an, campaignId) == {a \in Values(an) : a.campaignId = campaignId}
DbRowsOf(tbl, campaignId) == {r \in Values(tbl) : r.campaignId = campaignId}

\* after a launch, `after` holds one row for the campaign: zero counters when
\* `before` held none, the counters of before's row otherwise
LaunchLeavesCounters(before, after) ==
    /\ Cardinality(after) = 1
    /\ \A a \in after : \A k \in Counters :
          IF before = {} THEN a[k] = 0 ELSE \A b \in before : a[k] = b[k]

\* C4: launchCampaign(id) on a draft campaign makes it active and leaves exactly
\* one Analytics row for it: all counters 0 if there was none, the counters
\* unchanged if there was one.
C4_LaunchKeepsCounters ==
    [][(/\ call'.op = "launchCampaign"
        /\ call'.id \in DOMAIN campaigns
        /\ campaigns[call'.id].status = "draft")
        => /\ ret' = Ok(Bool(TRUE))
           /\ campaigns'[call'.id].status = "active"
           /\ LaunchLeavesCounters(MemRowsOf(analyticsData, call'.id),
                                   MemRowsOf(analyticsData', call'.id))
           /\ dbRet' = Ok(Bool(TRUE))
           /\ dbCampaigns'[call'.id].status = "active"
           /\ LaunchLeavesCounters(DbRowsOf(dbAnalytics, call'.id),
                                   DbRowsOf(dbAnalytics', call'.id))
    ]_vars

\* C5: no two Analytics rows have the same campaignId, and every campaign that
\* was launched has exactly one Analytics row; in both backends.
C5_OneAnalyticsRowPerCampaign ==
    /\ \A i, j \in DOMAIN analyticsData :
          analyticsData[i].campaignId = analyticsData[j].campaignId => i = j
    /\ \A i, j \in DOMAIN dbAnalytics :
          dbAnalytics[i].campaignId = dbAnalytics[j].campaignId => i = j
    /\ \A id \in launched :
          /\ Cardinality(MemRowsOf(analyticsData, id)) = 1
          /\ Cardinality(DbRowsOf(dbAnalytics, id)) = 1

\* C5 witness: a launched campaign was deleted and its row was then updated
C5_Witness ==
    /\ call.op = "createOrUpdateAnalytics"
    /\ call.existed
    /\ call.analytics.campaignId \in launched
    /\ call.analytics.campaignId \notin DOMAIN campaigns
    /\ ret.value.sent = 5

\* the counters an InsertAnalytics gives
GivenCounters(a) == {k \in Counters : a[k] # NotGiven}

\* one row, holding for every counter the value the second call gave, else the
\* value the first call gave, else 0
MergedRow(rows, first, second) ==
    /\ Cardinality(rows) = 1
    /\ \A r \in rows : \A k \in Counters :
          r[k] = IF k \in GivenCounters(second) THEN second[k]
                 ELSE IF k \in GivenCounters(first) THEN first[k]
                 ELSE 0

\* C6: two successive createOrUpdateAnalytics calls for a campaignId without a
\* row, giving disjoint sets of counters, leave a single row with every given
\* counter at its given value and the others at 0.
C6_AnalyticsMerge ==
    [][(/\ call.op = "createOrUpdateAnalytics"
        /\ ~call.existed
        /\ call'.op = "createOrUpdateAnalytics"
        /\ call'.analytics.campaignId = call.analytics.campaignId
        /\ GivenCounters(call.analytics) \cap GivenCounters(call'.analytics) = {})
        => /\ MergedRow(MemRowsOf(analyticsData', call.analytics.campaignId),
                        call.analytics, call'.analytics)
           /\ MergedRow(DbRowsOf(dbAnalytics', call.analytics.campaignId),
                        call.analytics, call'.analytics)
    ]_vars

\* C6 witness: {delivered: 3} was merged into a row that held sent = 5
C6_Witness ==
    /\ call.op = "createOrUpdateAnalytics"
    /\ call.existed
    /\ call.analytics.sent = NotGiven
    /\ call.analytics.delivered = 3
    /\ ret.value.sent = 5
    /\ ret.value.delivered = 3
    /\ dbRet.value.sent = 5
    /\ dbRet.value.delivered = 3
    /\ Cardinality(MemRowsOf(analyticsData, call.analytics.campaignId)) = 1

----------------------------------------------------------------------------
(* Reset tokens and passwords *)

\* the stored user holding `token`, as each backend looks it up
MemHolder(token) == Find(users, {k \in DOMAIN users : users[k].resetToken = token})
DbHolder(token) == FirstRow({r \in Values(dbUsers) : r.resetToken = token})

\* C7: a token made by createResetToken(userId) verifies to the user with that
\* userId while the clock is before the stored expiry, and verifies to
\* not-found once the stored expiry is earlier than the clock; in both backends.
C7_VerifyWithinWindow ==
    call.op = "verifyResetToken" =>
        LET m == MemHolder(call.token)
            d == DbHolder(call.token)
        IN /\ m # NotFound =>
                /\ now < m.resetTokenExpiry =>
                      ret = Ok(m) /\ m.id = tokenOwner[call.token]
                /\ m.resetTokenExpiry < now => ret = Ok(NotFound)
           /\ d # NotFound =>
                /\ now < d.resetTokenExpiry =>
                      dbRet = Ok(d) /\ d.id = tokenOwner[call.token]
                /\ d.resetTokenExpiry < now => dbRet = Ok(NotFound)

\* C7 witness: a stored token whose expiry has passed was looked up
C7_Witness ==
    /\ call.op = "verifyResetToken"
    /\ MemHolder(call.token) # NotFound
    /\ DbHolder(call.token) # NotFound
    /\ MemHolder(call.token).resetTokenExpiry < now
    /\ MemHolder(call.token).resetTokenExpiry = MemHolder(call.token).createdAt + OneHour
    /\ ret = Ok(NotFound)

\* C8: updatePassword on an existing user replaces the password and clears
\* resetToken and resetTokenExpiry in one update, so no token verifies to that
\* user afterwards; on an unknown userId it returns false and changes no user.
C8_UpdatePasswordClearsToken ==
    [][call'.op = "updatePassword" =>
        LET id == call'.userId
        IN /\ IF id \in DOMAIN users
              THEN /\ ret' = Ok(Bool(TRUE))
                   /\ users' = [users EXCEPT ![id] =
                                   [@ EXCEPT !.password = call'.password,
                                             !.resetToken = NoToken,
                                             !.resetTokenExpiry = NoTime]]
                   /\ \A t \in Tokens :
                         MemVerifyResetToken(users, t, now).value = users[id]
                            => MemVerifyResetToken(users', t, now') = Ok(NotFound)
              ELSE ret' = Ok(Bool(FALSE)) /\ users' = users
           /\ IF id \in DOMAIN dbUsers
              THEN /\ dbRet' = Ok(Bool(TRUE))
                   /\ dbUsers' = [dbUsers EXCEPT ![id] =
                                     [@ EXCEPT !.password = call'.password,
                                               !.resetToken = NoToken,
                                               !.resetTokenExpiry = NoTime]]
                   /\ \A t \in Tokens :
                         DbVerifyResetToken(dbUsers, t, now).value = dbUsers[id]
                            => DbVerifyResetToken(dbUsers', t, now') = Ok(NotFound)
              ELSE dbRet' = Ok(Bool(FALSE)) /\ dbUsers' = dbUsers
    ]_vars

\* C8 witness: a password was replaced on a user that held a reset token
\* (the token counter is ahead of every stored token only after a clear)
C8_Witness ==
    /\ call.op = "updatePassword"
    /\ ret = Ok(Bool(TRUE))
    /\ dbRet = Ok(Bool(TRUE))
    /\ \E t \in DOMAIN tokenOwner :
          /\ tokenOwner[t] = call.userId
          /\ MemHolder(t) = NotFound
          /\ DbHolder(t) = NotFound
          /\ \A t2 \in DOMAIN tokenOwner : tokenOwner[t2] = call.userId => t2 <= t

\* C9: createResetToken for a userId that resolves to no user throws and
\* leaves every stored user unchanged, in both backends.
C9_CreateResetTokenUnknownUser ==
    [][(call'.op = "createResetToken" /\ MemGetUser(users, call'.userId) = NotFound)
        => /\ ret'.threw
           /\ users' = users
           /\ DbGetUser(dbUsers, call'.userId) = NotFound
           /\ dbRet'.threw
           /\ dbUsers' = dbUsers
    ]_vars

\* C9 witness: the call threw while other users, one holding a token, exist
C9_Witness ==
    /\ call.op = "createResetToken"
    /\ ret.threw
    /\ dbRet.threw
    /\ \E u \in DOMAIN users : users[u].resetToken # NoToken

----------------------------------------------------------------------------
(* Campaign creation *)

\* contactLabel as createCampaign stores it: absent when empty or falsy
StoredContactLabel(contactLabel) ==
    IF contactLabel \in {"", Undefined, Null} THEN Null ELSE contactLabel

\* C11: createCampaign stores and returns the new campaign with status "draft"
\* whatever status the caller supplied, and an empty or falsy contactLabel is
\* stored as absent; in both backends.
C11_CreateCampaignDraft ==
    [][call'.op = "createCampaign" =>
        /\ ~ret'.threw
        /\ ret'.value.id \notin DOMAIN campaigns
        /\ campaigns' = Put(campaigns, ret'.value.id, ret'.value)
        /\ ret'.value.status = "draft"
        /\ ret'.value.contactLabel = StoredContactLabel(call'.campaign.contactLabel)
        /\ ~dbRet'.threw
        /\ dbRet'.value.id \notin DOMAIN dbCampaigns
        /\ dbCampaigns' = Put(dbCampaigns, dbRet'.value.id, dbRet'.value)
        /\ dbRet'.value.status = "draft"
        /\ dbRet'.value.contactLabel = StoredContactLabel(call'.campaign.contactLabel)
    ]_vars

\* C11 witness: a campaign given status "active" and an empty contactLabel was
\* created as a draft without a contactLabel
C11_Witness ==
    /\ call.op = "createCampaign"
    /\ call.campaign.status = "active"
    /\ call.campaign.contactLabel = ""
    /\ ret.value.status = "draft"
    /\ ret.value.contactLabel = Null
    /\ campaigns[ret.value.id] = ret.value
    /\ dbCampaigns[dbRet.value.id].status = "draft"

----------------------------------------------------------------------------
(* Settings *)

\* at most one row of sd per accountId
OneSettingsRowPerAccount(sd) ==
    \A i, j \in DOMAIN sd : sd[i].accountId = sd[j].accountId => i = j

\* updateSettings(accountId, partial) took `before` to `after` as an upsert:
\* a row of the account keeps its id and the fields the partial does not give
\* and takes the fields it gives; without such a row exactly one is created
SettingsUpserted(before, after, accountId, partial) ==
    LET rows == {k \in DOMAIN before : before[k].accountId = accountId}
    IN IF rows # {}
       THEN /\ DOMAIN after = DOMAIN before
            /\ \A k \in DOMAIN before :
                  IF k \in rows
                  THEN /\ after[k].id = before[k].id
                       /\ \A f \in SettingsFields :
                             after[k][f] = IF f \in DOMAIN partial THEN partial[f]
                                           ELSE before[k][f]
                  ELSE after[k] = before[k]
       ELSE /\ Cardinality(DOMAIN after) = Cardinality(DOMAIN before) + 1
            /\ \A k \in DOMAIN before : k \in DOMAIN after /\ after[k] = before[k]

\* C12: updateSettings leaves at most one Settings row per accountId; on an
\* account that has a row it overwrites only the fields the partial gives and
\* keeps the row's id and other fields; on an account without a row it creates
\* exactly one row.
C12_SettingsUpsert ==
    [][call'.op = "updateSettings" =>
        /\ SettingsUpserted(settingsData, settingsData', call'.accountId,
                            call'.settingsData)
        /\ OneSettingsRowPerAccount(settingsData')
        /\ SettingsUpserted(dbSettings, dbSettings', call'.accountId,
                            call'.settingsData)
        /\ OneSettingsRowPerAccount(dbSettings')
    ]_vars

----------------------------------------------------------------------------
(* Process start *)

\* C13: once module initialization is over the exported singleton is a
\* DatabaseStorage when a connection string is configured and a MemStorage when
\* none is, initialization completing in both cases; the choice never changes.
C13_BackendSelection ==
    [][/\ storage' # "unloaded" =>
             storage' = IF Truthy(dbConfigUrl') THEN "DatabaseStorage"
                        ELSE "MemStorage"
       /\ storage # "unloaded" => storage' = storage
    ]_vars

\* C18: the DatabaseStorage constructor does not throw; it installs the
\* in-process session store when creating the database-backed one fails and
\* the database-backed one when that succeeds.
C18_SessionStoreFallback ==
    [][(call'.op = "export storage" /\ Truthy(call'.url)) =>
        /\ ~ret'.threw
        /\ storage' = "DatabaseStorage"
        /\ sessionStore' = IF call'.postgresStoreThrows THEN "MemoryStore"
                           ELSE "PostgresStore"
    ]_vars

\* C18 witness: the singleton built with the fallback store takes calls
C18_Witness ==
    /\ storage = "DatabaseStorage"
    /\ sessionStore = "MemoryStore"
    /\ call.op = "launchCampaign"
    /\ ret = Ok(Bool(TRUE))

----------------------------------------------------------------------------
(* Date ranges *)

\* the values of dateRange that the switch names
RecognizedDateRanges == {"today", "last-week", "last-month", "last-year"}

\* the call gives an unrecognized dateRange and no other filter
OnlyUnrecognizedDateRange(f, others) ==
    /\ f # NoFilters
    /\ f.search = <<>>
    /\ \A o \in others : ~Truthy(f[o])
    /\ Truthy(f.dateRange)
    /\ f.dateRange \notin RecognizedDateRanges

\* C14: getContacts and getCampaigns with only dateRange set, to a value other
\* than today, last-week, last-month or last-year, apply no lower bound: every
\* entity of the account is returned, also those created before the call.
C14_UnrecognizedDateRange ==
    /\ (/\ call.op = "getContacts"
        /\ OnlyUnrecognizedDateRange(call.filters, {"label", "location"}))
        => /\ ret.value.rows =
                 {c \in Values(contacts) : c.accountId = call.accountId}
           /\ dbRet.value.rows =
                 {r \in Values(dbContacts) : r.accountId = call.accountId}
    /\ (/\ call.op = "getCampaigns"
        /\ OnlyUnrecognizedDateRange(call.filters, {"status"}))
        => /\ ret.value.rows =
                 {c \in Values(campaigns) : c.accountId = call.accountId}
           /\ dbRet.value.rows =
                 {r \in Values(dbCampaigns) : r.accountId = call.accountId}

----------------------------------------------------------------------------
(* Launch of a missing campaign *)

\* C15: launchCampaign(id) for an id that resolves to no campaign returns
\* false without throwing and leaves all campaigns and all Analytics rows
\* unchanged, in both backends.
C15_LaunchMissingCampaign ==
    [][(call'.op = "launchCampaign" /\ call'.id \notin DOMAIN campaigns) =>
        /\ ret' = Ok(Bool(FALSE))
        /\ campaigns' = campaigns
        /\ analyticsData' = analyticsData
        /\ analyticsCurrentId' = analyticsCurrentId
        /\ \A r \in Values(dbCampaigns) : r.id # call'.id
        /\ dbRet' = Ok(Bool(FALSE))
        /\ dbCampaigns' = dbCampaigns
        /\ dbAnalytics' = dbAnalytics
        /\ dbAnalyticsSeq' = dbAnalyticsSeq
    ]_vars

\* C15 witness: a campaign that was launched and then deleted was launched
\* again, next to its Analytics row
C15_Witness ==
    /\ call.op = "launchCampaign"
    /\ call.id \in launched
    /\ call.id \notin DOMAIN campaigns
    /\ ret = Ok(Bool(FALSE))
    /\ dbRet = Ok(Bool(FALSE))
    /\ MemRowsOf(analyticsData, call.id) # {}

----------------------------------------------------------------------------
(* Import with a rejected insert *)

\* what the records before position i leave when imported alone, in order
PrefixImported(i) ==
    DbImportContacts(dbContacts, dbContactsSeq, SubSeq(call'.list, 1, i - 1),
                     call'.deduplicateByMobile, now, 0, 0)

\* C16: importContacts takes the records in list order; when the insert of
\* record i is rejected the error reaches the caller, the records inserted
\* before i stay in storage (no rollback) and no record from i on is
\* inserted; when no insert is rejected the whole list is processed.
C16_ImportPartialFailure ==
    [][call'.op = "importContacts" =>
        LET i == call'.failAt
            reached == i > 0 /\ ~(/\ call'.deduplicateByMobile
                                  /\ DbSelectContactByMobile(PrefixImported(i).contacts,
                                         call'.list[i].mobile,
                                         call'.list[i].accountId) # {})
        IN /\ dbRet'.threw = reached
           /\ reached =>
                /\ dbContacts' = PrefixImported(i).contacts
                /\ \A k \in DOMAIN dbContacts :
                       k \in DOMAIN dbContacts' /\ dbContacts'[k] = dbContacts[k]
                /\ Cardinality(DOMAIN dbContacts' \ DOMAIN dbContacts)
                     = PrefixImported(i).ret.value.imported
           /\ ~reached =>
                /\ dbContacts' = PrefixImported(Len(call'.list) + 1).contacts
                /\ dbRet' = PrefixImported(Len(call'.list) + 1).ret
           /\ ~ret'.threw
           /\ \A k \in DOMAIN contacts' \ DOMAIN contacts :
                  \E j \in 1..Len(call'.list) :
                      /\ k = contactCurrentId + Cardinality({n \in DOMAIN contacts' \ DOMAIN contacts : n < k})
                      /\ contacts'[k].mobile = call'.list[j].mobile
                      /\ contacts'[k].accountId = call'.list[j].accountId
    ]_vars

\* C16 witness: an import of three records into empty storage without
\* deduplication whose third insert was rejected: the database holds the
\* first two, in list order
C16_Witness ==
    /\ call.op = "importContacts"
    /\ Len(call.list) = 3
    /\ ~call.deduplicateByMobile
    /\ call.failAt = 3
    /\ contactCurrentId = 4
    /\ dbRet = Throw("insert failed")
    /\ DOMAIN dbContacts = {1, 2}
    /\ \A k \in {1, 2} : dbContacts[k].mobile = call.list[k].mobile
    /\ call.list[1].mobile # call.list[2].mobile

----------------------------------------------------------------------------
(* Calls in progress together *)

\* a row without the id the store gave it
WithoutId(row) == [f \in DOMAIN row \ {"id"} |-> row[f]]

\* the rows of a collection with their multiplicities, ids aside
Content(m) ==
    [r \in {WithoutId(m[k]) : k \in DOMAIN m} |->
        Cardinality({k \in DOMAIN m : WithoutId(m[k]) = r})]

\* a result, ids aside
ResultContent(r) ==
    IF ~r.threw /\ "id" \in DOMAIN r.value THEN Ok(WithoutId(r.value)) ELSE r

\* one call run alone, start to end, on the stores st
RunAlone(st, task, t) ==
    IF task.op = "importContacts"
    THEN LET m == MemImportContacts(st.contacts, st.contactCurrentId, task.list,
                                    task.deduplicateByMobile, t, 0, 0)
         IN [stores |-> [st EXCEPT !.contacts = m.contacts,
                                   !.contactCurrentId = m.contactCurrentId],
             ret |-> m.ret]
    ELSE LET m == MemUpdateSettings(st.settingsData, st.settingsCurrentId,
                                    task.accountId, task.data, t)
         IN [stores |-> [st EXCEPT !.settingsData = m.settingsData,
                                   !.settingsCurrentId = m.settingsCurrentId],
             ret |-> m.ret]

\* the results and the stores are those of running a and then b
AsInOrder(a, b) ==
    LET first == RunAlone(tasks[a].base, tasks[a], now)
        second == RunAlone(first.stores, tasks[b], now)
    IN /\ ResultContent(tasks[a].ret) = ResultContent(first.ret)
       /\ ResultContent(tasks[b].ret) = ResultContent(second.ret)
       /\ Content(contacts) = Content(second.stores.contacts)
       /\ Content(settingsData) = Content(second.stores.settingsData)

\* C17: MemStorage, calls interleaving at their awaits only: when two
\* mutating calls have both returned, their results and the stored records
\* (ids aside) are those of one of the two sequential orders, no
\* (mobile, accountId) that deduplicating imports brought in is stored twice
\* and no account has two Settings rows.
C17_ConcurrentCallsSerializable ==
    (AllReturned /\ DOMAIN tasks = Callers) =>
        /\ AsInOrder(1, 2) \/ AsInOrder(2, 1)
        /\ \A k1, k2 \in DOMAIN settingsData :
               settingsData[k1].accountId = settingsData[k2].accountId => k1 = k2
        /\ (\A c \in Callers :
               tasks[c].op = "importContacts" /\ tasks[c].deduplicateByMobile) =>
               \A k1, k2 \in DOMAIN contacts \ DOMAIN tasks[1].base.contacts :
                   (/\ contacts[k1].mobile = contacts[k2].mobile
                    /\ contacts[k1].accountId = contacts[k2].accountId) => k1 = k2

----------------------------------------------------------------------------
(* Account scoping of the reads *)

\* the call asked for everything of the account
Unfiltered ==
    \/ call.op \in {"getContacts", "getCampaigns"} /\ call.filters = NoFilters
    \/ call.op = "getAnalytics" /\ call.campaignId = 0

\* the stored records the last read ranges over, MemStorage and database
MemStored ==
    IF call.op = "getContacts" THEN Values(contacts)
    ELSE IF call.op = "getCampaigns" THEN Values(campaigns)
    ELSE Values(analyticsData)
DbStored ==
    IF call.op = "getContacts" THEN Values(dbContacts)
    ELSE IF call.op = "getCampaigns" THEN Values(dbCampaigns)
    ELSE Values(dbAnalytics)

----------------------------------------------------------------------------
(* Uniqueness of users *)

\* the users of MemStorage that getUserByUsername and getUserByEmail choose from
UsernameCandidates(username) == {k \in DOMAIN users : users[k].username = username}
EmailCandidates(email) == {k \in DOMAIN users : users[k].email = email}

\* C20: after any sequence of createUser calls no two stored users of
\* MemStorage have the same username, and no two have the same email unless
\* it is absent, so the lookups by username and by email have at most one
\* candidate.
C20_UniqueUsers ==
    \A k \in DOMAIN users :
        /\ Cardinality(UsernameCandidates(users[k].username)) <= 1
        /\ users[k].email # Null =>
               Cardinality(EmailCandidates(users[k].email)) <= 1

----------------------------------------------------------------------------
(* Update and delete of a contact *)

\* the contact old with exactly the fields of partial written over
ShallowMerge(old, partial) ==
    [f \in DOMAIN old |-> IF f \in DOMAIN partial THEN partial[f] ELSE old[f]]

\* the collection m without the record of id, every other record as it was
WithoutRecord(m, id) == [k \in DOMAIN m \ {id} |-> m[k]]

\* C21: updateContact(id, partial) on a stored contact writes exactly the
\* fields of partial and keeps id, createdAt and every other field and
\* contact; on an unknown id it returns not-found and changes nothing.
\* deleteContact(id) returns true and removes that contact alone when it is
\* stored, and returns false and changes nothing otherwise.  Both backends.
C21_ContactUpdateDelete ==
    [][/\ call'.op = "updateContact" =>
            IF call'.id \in DOMAIN contacts
            THEN /\ contacts' = Put(contacts, call'.id,
                                    ShallowMerge(contacts[call'.id], call'.updateData))
                 /\ contacts'[call'.id].id = call'.id
                 /\ contacts'[call'.id].createdAt = contacts[call'.id].createdAt
                 /\ ret' = Ok(contacts'[call'.id])
                 /\ dbContacts' = Put(dbContacts, call'.id,
                                      ShallowMerge(dbContacts[call'.id],
                                                   call'.updateData))
                 /\ dbRet' = Ok(dbContacts'[call'.id])
            ELSE /\ ret' = Ok(NotFound) /\ dbRet' = Ok(NotFound)
                 /\ contacts' = contacts /\ dbContacts' = dbContacts
       /\ call'.op = "deleteContact" =>
            /\ ret' = Ok(Bool(call'.id \in DOMAIN contacts))
            /\ dbRet' = Ok(Bool(call'.id \in DOMAIN dbContacts))
            /\ contacts' = WithoutRecord(contacts, call'.id)
            /\ dbContacts' = WithoutRecord(dbContacts, call'.id)
            /\ call'.id \notin DOMAIN contacts =>
                   contacts' = contacts /\ dbContacts' = dbContacts
       /\ call'.op \in {"updateContact", "deleteContact"} =>
            /\ contactCurrentId' = contactCurrentId
            /\ dbContactsSeq' = dbContactsSeq
    ]_vars

\* C21 witness: an update of label and location of one of two stored contacts,
\* made after the hour of its creation, that returned the contact with its
\* name and createdAt kept
C21_Witness ==
    /\ call.op = "updateContact"
    /\ call.id \in DOMAIN contacts
    /\ Cardinality(DOMAIN contacts) = 2
    /\ "location" \in DOMAIN call.updateData
    /\ ret = Ok(contacts[call.id])
    /\ ret.value.location = "LA"
    /\ ret.value.label = ""
    /\ ret.value.name = <<"B">>
    /\ ret.value.createdAt < now

----------------------------------------------------------------------------
(* Status of a campaign in MemStorage *)

\* the campaigns of MemStorage stored before and after the step
KeptCampaigns == DOMAIN campaigns \cap DOMAIN campaigns'

\* C22: in MemStorage the status of a stored campaign changes through
\* launchCampaign of that campaign alone; updateCampaign leaves status,
\* accountId, id and createdAt as they were whatever the partial holds; and a
\* campaign that is active is active in every later state in which it is
\* stored.
C22_StatusOnlyByLaunch ==
    [][/\ \A id \in KeptCampaigns :
            /\ campaigns'[id].status # campaigns[id].status =>
                   call'.op = "launchCampaign" /\ call'.id = id
            /\ campaigns[id].status = "active" => campaigns'[id].status = "active"
       /\ call'.op = "updateCampaign" =>
            /\ DOMAIN campaigns' = DOMAIN campaigns
            /\ \A id \in DOMAIN campaigns :
                   /\ campaigns'[id].status = campaigns[id].status
                   /\ campaigns'[id].accountId = campaigns[id].accountId
                   /\ campaigns'[id].id = campaigns[id].id
                   /\ campaigns'[id].createdAt = campaigns[id].createdAt
    ]_vars

\* C22 witness: updateCampaign with status "active" in its partial returned a
\* stored campaign that is still a draft
C22_Witness ==
    /\ call.op = "updateCampaign"
    /\ call.id \in DOMAIN campaigns
    /\ "status" \in DOMAIN call.updateData
    /\ call.updateData.status = "active"
    /\ ret = Ok(campaigns[call.id])
    /\ campaigns[call.id].status = "draft"

----------------------------------------------------------------------------
(* One reset token per user *)

\* the tokens that verify to the user of userId, per backend; every token
\* createResetToken returns is a fresh draw of 20 random bytes
MemVerifying(us, userId, t) ==
    {token \in Tokens :
        LET r == MemVerifyResetToken(us, token, t)
        IN r.value # NotFound /\ r.value.id = userId}
DbVerifying(tbl, userId, t) ==
    {token \in Tokens :
        LET r == DbVerifyResetToken(tbl, token, t)
        IN r.value # NotFound /\ r.value.id = userId}

\* C23: a user holds at most one reset token: after createResetToken(userId)
\* has returned a token, that token verifies to the user and no token made
\* for the user before does; at any time at most one token verifies to a
\* user, and verifyResetToken resolves a token to none but the user it was
\* made for.  Both backends.
C23_OneTokenPerUser ==
    [][/\ (call'.op = "createResetToken" /\ ~ret'.threw) =>
            /\ MemVerifying(users', call'.userId, now') = {ret'.value.token}
            /\ users'[call'.userId].resetTokenExpiry = now' + OneHour
       /\ (call'.op = "createResetToken" /\ ~dbRet'.threw) =>
            DbVerifying(dbUsers', call'.userId, now') = {dbRet'.value.token}
       /\ \A userId \in DOMAIN users' :
            /\ Cardinality(MemVerifying(users', userId, now')) <= 1
            /\ Cardinality(DbVerifying(dbUsers', userId, now')) <= 1
       /\ call'.op = "verifyResetToken" =>
            /\ ret'.value # NotFound => ret'.value.id = tokenOwner'[call'.token]
            /\ dbRet'.value # NotFound => dbRet'.value.id = tokenOwner'[call'.token]
    ]_vars

\* C23 witness: the second token of a user, made while the first was held and
\* had not expired
C23_Witness ==
    /\ call.op = "createResetToken"
    /\ ret = Ok(Token(2))
    /\ dbRet = Ok(Token(2))
    /\ tokenOwner[1] = call.userId
    /\ users[call.userId].resetToken = 2
    /\ users[call.userId].resetTokenExpiry = now + OneHour
    /\ now = 0
    /\ MemVerifyResetToken(users, 1, now) = Ok(NotFound)

----------------------------------------------------------------------------
(* Deleting a campaign *)

\* every row of campaignId in the analytics is what getAnalytics returns for
\* the row's account and that campaign
MemStillReturned(an, campaignId) ==
    \A a \in MemRowsOf(an, campaignId) :
        MemGetAnalytics(an, a.accountId, campaignId) = Ok(Rows({a}))
DbStillReturned(tbl, campaignId) ==
    \A a \in DbRowsOf(tbl, campaignId) :
        DbGetAnalytics(tbl, a.accountId, campaignId) = Ok(Rows({a}))

\* C24: deleteCampaign(id) removes the campaign record alone: the Analytics
\* row of that campaignId stays as it was and getAnalytics(accountId, id)
\* still returns it; and no campaign id is used twice: a new campaign takes
\* the next value of a counter that only grows, above every id stored or
\* launched before, so it never meets the Analytics row of a deleted
\* campaign.  Both backends.
C24_DeleteKeepsAnalytics ==
    [][/\ call'.op = "deleteCampaign" =>
            /\ campaigns' = WithoutRecord(campaigns, call'.id)
            /\ dbCampaigns' = WithoutRecord(dbCampaigns, call'.id)
            /\ analyticsData' = analyticsData
            /\ dbAnalytics' = dbAnalytics
            /\ MemStillReturned(analyticsData', call'.id)
            /\ DbStillReturned(dbAnalytics', call'.id)
       /\ call'.op = "createCampaign" =>
            /\ ret'.value.id = campaignCurrentId
            /\ dbRet'.value.id = dbCampaignsSeq
            /\ ret'.value.id \notin launched \cup DOMAIN campaigns
            /\ dbRet'.value.id \notin launched \cup DOMAIN dbCampaigns
            /\ DOMAIN campaigns' = DOMAIN campaigns \cup {ret'.value.id}
       /\ campaignCurrentId' >= campaignCurrentId
       /\ dbCampaignsSeq' >= dbCampaignsSeq
       /\ \A id \in launched' \cup DOMAIN campaigns' : id < campaignCurrentId'
       /\ \A id \in launched' \cup DOMAIN dbCampaigns' : id < dbCampaignsSeq'
    ]_vars

\* C24 witness: a campaign was created after a launched campaign was deleted:
\* it has a new id and the row of the deleted one is still stored
C24_Witness ==
    /\ call.op = "createCampaign"
    /\ ret.value.id = 2
    /\ 1 \in launched
    /\ 1 \notin DOMAIN campaigns
    /\ MemRowsOf(analyticsData, 1) # {}
    /\ DbRowsOf(dbAnalytics, 1) # {}
    /\ MemStillReturned(analyticsData, 1)
    /\ MemRowsOf(analyticsData, 2) = {}

====
